---------------------------- MODULE Spec2Model ----------------------------
(***************************************************************************)
(* Model of the ODP traffic generator (example/generator/odp_generator.c)  *)
(* and of the Internet checksum helper (odp_chksum_internal.h).            *)
(*                                                                         *)
(* The module holds several specifications over one set of variables; each *)
(* specification drives one part of the program and leaves the variables   *)
(* of the other parts at their idle values:                                *)
(*   SpecSend  one send worker (gen_send_thread) and the stop it receives  *)
(*   SpecSeq   consecutive refreshes of the reference packets              *)
(*   SpecChk   chksum_partial and chksum_finalize over pattern buffers     *)
(*   SpecRecv  one receive worker (gen_recv_thread)                        *)
(*   SpecRun   main, the reporter (print_global_stats) and the workers     *)
(*   SpecRunFair  SpecRun with every thread scheduled again and again      *)
(*   SpecLoop  the loop of one worker, call by call, with millisleep       *)
(*   SpecLoopFair  SpecLoop with the worker scheduled and timers expiring  *)
(*   SpecAssign  main's assignment of output queues to the send workers    *)
(*   SpecWorkers  the worker of SpecSend or the worker of SpecRecv         *)
(*   SpecRtt   the round-trip time reported for one echo reply             *)
(*   SpecArgs  parse_args, main's checks after it and the thread creation  *)
(*   SpecFin   chksum_finalize over 64-bit partial sums                    *)
(*   SpecSeg   the checksum of a buffer summed in two segments             *)
(*   SpecCursor  the sequence cursors of the send workers of a UDP run     *)
(*   SpecIo    one send worker and the transmit side of its interface      *)
(***************************************************************************)
EXTENDS Integers, Sequences, FiniteSets, TLC

(***************************************************************************)
(* Program constants.                                                      *)
(***************************************************************************)
MAX_WORKERS == 32
MAX_UDP_TX_BURST == 512
DEFAULT_UDP_TX_BURST == 16
MAX_RX_BURST == 32
APPL_MODE_UDP == 0
APPL_MODE_PING == 1
APPL_MODE_RCV == 2
PING_THR_TX == 0
PING_THR_RX == 1
\* the modulus of "counters->ctr_seq % 0xFFFF"
SEQ_MODULUS == 65535
\* the number of values of an unsigned short
USHORT_RANGE == 65536
\* nanoseconds in a millisecond and in a microsecond
ODP_TIME_MSEC_IN_NS == 1000000
ODP_TIME_USEC_IN_NS == 1000

(***************************************************************************)
(* Bounds of the model.                                                    *)
(***************************************************************************)
\* SpecCursor: most UDP send workers, largest burst size and most bursts a
\* worker starts
CurMaxWorkers == 3
CurMaxBurst == 3
CurMaxBursts == 2
\* SpecIo: largest burst size and most iterations of the send loop
IoMaxBurst == 2
IoMaxIters == 3
\* largest udp_tx_burst (-x) tried by SpecSend
MaxBurst == 3
\* largest packet count (-n) tried by SpecSend
MaxNumber == 2
\* a send worker starts no burst once its sequence cursor is above this
MaxSeqSend == 5
\* odp_pktout_send calls followed within one burst
MaxCalls == 3
\* the sequence cursor up to which SpecSeq follows the refreshes
MaxSeq == 66100
\* longest buffer given to the checksum
MaxLen == 41
\* most events one odp_schedule_multi returns in SpecRecv
MaxEvents == 2
\* iterations of the receive loop that dequeue events
MaxRxIters == 1
\* SpecRun: most workers asked for, largest count, burst and timeout, and
\* the sent and reply counts above which a worker's loop is not followed
RunMaxWorkers == 2
RunMaxNumber == 1
RunMaxBurst == 1
RunMaxTimeout == 0
RunMaxSent == 3
RunMaxReply == 1
\* SpecLoop: counters wrap at CtrRange; interval in 0..MaxInterval
CtrRange == 4
MaxRttMs == 6
SegMaxLen == 9
ArgMaxWorkers == 2
ArgMaxCpus == 2
MaxInterval == 1
\* SpecAssign: most send workers, interfaces and output queues an interface
\* can have
AsgMaxWorkers == 4
AsgMaxIfs == 2
AsgMaxQueues == 3

(***************************************************************************)
(* Byte order helpers (odp/api/byteorder.h as used by the sources).        *)
(***************************************************************************)
Bswap16(x) == (x % 256) * 256 + (x \div 256)

\* odp_cpu_to_be_16 on a little endian (le) or big endian build
odp_cpu_to_be_16(le, x) == IF le THEN Bswap16(x) ELSE x

\* the two bytes a host uint16 occupies in memory, in address order
StoreU16(le, v) == IF le THEN <<v % 256, v \div 256>> ELSE <<v \div 256, v % 256>>

\* the value of a 16 bit field as read from the wire (network byte order)
WireU16(b) == b[1] * 256 + b[2]

Min(a, b) == IF a < b THEN a ELSE b

(***************************************************************************)
(* setup_udp_pkt / setup_icmp_pkt: the sequence number of one refresh.     *)
(***************************************************************************)
\* unsigned short seq = counters->ctr_seq % 0xFFFF
RefreshSeq(ctr) == (ctr % SEQ_MODULUS) % USHORT_RANGE

\* ip->id = odp_cpu_to_be_16(seq), as the two bytes stored in the header
setup_udp_pkt(le, ctr) == StoreU16(le, odp_cpu_to_be_16(le, RefreshSeq(ctr)))

\* ip->id as in UDP mode; icmp->un.echo.sequence = ip->id
setup_icmp_pkt(le, ctr) == StoreU16(le, odp_cpu_to_be_16(le, RefreshSeq(ctr)))

setup_pkt(m, le, ctr) ==
    IF m = APPL_MODE_UDP THEN setup_udp_pkt(le, ctr) ELSE setup_icmp_pkt(le, ctr)

(***************************************************************************)
(* setup_pkt_ref_array: size templates are allocated in order; failAt is   *)
(* the 0-based index of the allocation that returns ODP_PACKET_INVALID, or *)
(* size when none does.  Slots are 1-based in the model.                   *)
(***************************************************************************)
RefArrayFreedOneShort(i) == IF i # 0 THEN i - 1 ELSE 0

\* odp_packet_free_multi(pkt_ref_array, i)
RefArrayFreed(i) == i

setup_pkt_ref_array(size, failAt) ==
    LET i == Min(failAt, size)
    IN  IF i < size
        THEN [ret |-> -1,
              arr |-> [k \in 1..size |->
                         IF k <= i
                         THEN (IF k <= RefArrayFreed(i) THEN "freed" ELSE "alloc")
                         ELSE IF k = i + 1 THEN "invalid" ELSE "unset"]]
        ELSE [ret |-> 0, arr |-> [k \in 1..size |-> "alloc"]]

(***************************************************************************)
(* setup_pkt_array: every slot is refreshed (setup_pkt, which advances the *)
(* sequence cursor) and then aliased with odp_packet_ref_static; failAt is *)
(* the 0-based slot whose alias is ODP_PACKET_INVALID, or size.            *)
(***************************************************************************)
\* if (i) odp_packet_free_multi(pkt_array, i - 1)
PktArrayFreed(i) == IF i # 0 THEN i - 1 ELSE 0

setup_pkt_array(size, failAt) ==
    LET i == Min(failAt, size)
    IN  IF i < size
        THEN [ret |-> -1,
              refreshed |-> i + 1,
              arr |-> [k \in 1..size |->
                         IF k <= i
                         THEN (IF k <= PktArrayFreed(i) THEN "freed" ELSE "held")
                         ELSE IF k = i + 1 THEN "invalid" ELSE "unset"]]
        ELSE [ret |-> 0, refreshed |-> size,
              arr |-> [k \in 1..size |-> "held"]]

(***************************************************************************)
(* One pass of the inner send loop of gen_send_thread: odp_pktout_send was *)
(* called with burst_size packets starting at burst_start and returned ret.*)
(***************************************************************************)
\* what the partial-acceptance branch adds to ctr_pkt_snd_drop
PartialDrop(bsize, ret) == bsize - ret

\* TRUE when the partial-acceptance branch goes round the loop again
PartialContinues == TRUE

FailFreedFromArrayStart(bstart, bsize) == 1 .. bsize

\* odp_packet_free_multi(&pkt_array[burst_start], burst_size), as slots
FailFreed(bstart, bsize) == bstart + 1 .. bstart + bsize

SendPass(bstart, bsize, ret) ==
    IF ret = bsize
    THEN [bstart |-> bstart, bsize |-> 0, drop |-> 0, again |-> FALSE,
          sent |-> bstart + 1 .. bstart + ret, freed |-> {}]
    ELSE IF ret >= 0 /\ ret < bsize
    THEN [bstart |-> bstart + ret, bsize |-> bsize - ret,
          drop |-> PartialDrop(bsize, ret), again |-> PartialContinues,
          sent |-> bstart + 1 .. bstart + ret, freed |-> {}]
    ELSE [bstart |-> bstart, bsize |-> bsize, drop |-> 0, again |-> FALSE,
          sent |-> {}, freed |-> FailFreed(bstart, bsize)]

SentDeltaReversed(size, bsize) == bsize - size

SentDeltaWholeBurst(size, bsize) == size

SentDeltaRemainder(size, bsize) == bsize

\* counters->ctr_pkt_snd += pkt_array_size - burst_size
SentDelta(size, bsize) == size - bsize

\* pkt_count_max of gen_send_thread
PktCountMax(m, n, cnt) ==
    IF n = -1 THEN 0
    ELSE IF m = APPL_MODE_UDP
         THEN (n \div cnt) + (IF n % cnt # 0 THEN 1 ELSE 0)
         ELSE n

\* seq_step of gen_send_thread
SeqStep(m, burst, cnt) == IF m = APPL_MODE_UDP THEN burst * (cnt - 1) ELSE 0

QuotaReachedLate(max, snd) == max # 0 /\ snd > max + 1

\* if (pkt_count_max && counters->ctr_pkt_snd > pkt_count_max)
QuotaReached(max, snd) == max # 0 /\ snd > max

\* args->tx_burst_size as main sets it
TxBurstSize(m, udp_tx_burst) ==
    IF m = APPL_MODE_PING THEN 1
    ELSE IF m = APPL_MODE_UDP THEN udp_tx_burst ELSE 0

(***************************************************************************)
(* odp_chksum_internal.h.  A uint64_t accumulator is kept as four 16 bit   *)
(* limbs, least significant first, so that every intermediate value stays  *)
(* exact.  A buffer is a sequence of bytes; addr is the address of its     *)
(* first byte modulo 4.                                                    *)
(***************************************************************************)
LIMB == 65536
DWORDS_PER_ROUND == 8

Acc0 == <<0, 0, 0, 0>>

\* sum += v, for a value v given as its low and high 16 bit halves
AccAdd(s, lo, hi) ==
    LET t0 == s[1] + lo
        t1 == s[2] + hi + (t0 \div LIMB)
        t2 == s[3] + (t1 \div LIMB)
        t3 == s[4] + (t2 \div LIMB)
    IN  <<t0 % LIMB, t1 % LIMB, t2 % LIMB, t3 % LIMB>>

\* a host uint16 read from two bytes in address order
LoadU16(le, x, y) == IF le THEN x + 256 * y ELSE 256 * x + y

(***************************************************************************)
(* The memory chksum_partial is given: len bytes starting from bytes down  *)
(* a list of runs, each run a short byte string repeated a number of       *)
(* times.  A buffer of a few bytes is one run taken once.                  *)
(***************************************************************************)
Run(bytes, times) == [bytes |-> bytes, times |-> times]

Flat(bytes) == [runs |-> <<Run(bytes, 1)>>, from |-> 0, len |-> Len(bytes)]

\* the len bytes that follow the first from bytes of buf
Slice(buf, from, len) == [runs |-> buf.runs, from |-> buf.from + from, len |-> len]

BufLen(buf) == buf.len

RECURSIVE RunByte(_, _, _)
RunByte(runs, i, k) ==
    LET n == Len(runs[i].bytes) * runs[i].times
    IN  IF k <= n THEN runs[i].bytes[((k - 1) % Len(runs[i].bytes)) + 1]
        ELSE RunByte(runs, i + 1, k - n)

\* b[k - 1] for b = addr
ByteAt(buf, k) == RunByte(buf.runs, 1, buf.from + k)

\* read_u16(b) with b = buf + pos
read_u16(le, buf, pos) == LoadU16(le, ByteAt(buf, pos + 1), ByteAt(buf, pos + 2))

\* read_u32(b) with b = buf + pos, as <<low half, high half>>
read_u32(le, buf, pos) ==
    IF le
    THEN <<LoadU16(le, ByteAt(buf, pos + 1), ByteAt(buf, pos + 2)),
           LoadU16(le, ByteAt(buf, pos + 3), ByteAt(buf, pos + 4))>>
    ELSE <<LoadU16(le, ByteAt(buf, pos + 3), ByteAt(buf, pos + 4)),
           LoadU16(le, ByteAt(buf, pos + 1), ByteAt(buf, pos + 2))>>

\* a + b of two uint64_t
AccPlus(a, b) ==
    LET t0 == a[1] + b[1]
        t1 == a[2] + b[2] + (t0 \div LIMB)
        t2 == a[3] + b[3] + (t1 \div LIMB)
        t3 == a[4] + b[4] + (t2 \div LIMB)
    IN  <<t0 % LIMB, t1 % LIMB, t2 % LIMB, t3 % LIMB>>

\* the sum of the n dwords at buf + pos; addition of uint64_t is
\* associative, so the dwords are added as two halves
RECURSIVE DwordsSum(_, _, _, _)
DwordsSum(le, buf, pos, n) ==
    IF n = 0 THEN Acc0
    ELSE IF n = 1
         THEN LET w == read_u32(le, buf, pos)
              IN  <<w[1], w[2], 0, 0>>
         ELSE LET h == n \div 2
              IN  AccPlus(DwordsSum(le, buf, pos, h),
                          DwordsSum(le, buf, pos + 4 * h, n - h))

\* n times "sum += read_u32(b); b += 4"
SumDwords(le, buf, pos, n, sum) == AccPlus(sum, DwordsSum(le, buf, pos, n))

OddByteOffsetKept(offset) == offset

\* offset ^= 1 after the leading odd byte
OddByteOffset(offset) == 1 - offset

\* the dwords summed by "while (len >= 32)"
MainLoopDwords(len) == DWORDS_PER_ROUND * (len \div (4 * DWORDS_PER_ROUND))

\* the dwords summed by "switch (len >> 2)", whose cases are 7 down to 1
TailDwords(len) == IF len \div 4 \in 1..(DWORDS_PER_ROUND - 1) THEN len \div 4 ELSE 0

\* ((sum & 0xff00ff00ff00ff) << 8) | ((sum & 0xff00ff00ff00ff00) >> 8)
FlipBytes(s) == [k \in 1..4 |-> Bswap16(s[k])]

chksum_partial(le, unaligned, buf, addr, offset) ==
    LET len0 == BufLen(buf)
        off0 == offset % 2
        odd  == ~unaligned /\ addr % 2 = 1 /\ len0 >= 1
        s1   == IF odd THEN AccAdd(Acc0, odp_cpu_to_be_16(le, ByteAt(buf, 1)), 0) ELSE Acc0
        p1   == IF odd THEN 1 ELSE 0
        off1 == IF odd THEN OddByteOffset(off0) ELSE off0
        half == ~unaligned /\ (addr + p1) % 4 >= 2 /\ len0 - p1 >= 2
        s2   == IF half THEN AccAdd(s1, read_u16(le, buf, p1), 0) ELSE s1
        p2   == IF half THEN p1 + 2 ELSE p1
        len2 == len0 - p2
        n3   == MainLoopDwords(len2)
        s3   == SumDwords(le, buf, p2, n3, s2)
        p3   == p2 + 4 * n3
        len3 == len2 - 4 * n3
        n4   == TailDwords(len3)
        s4   == SumDwords(le, buf, p3, n4, s3)
        p4   == p3 + 4 * n4
        len4 == len3 % 4
        s5   == IF len4 > 1 THEN AccAdd(s4, read_u16(le, buf, p4), 0) ELSE s4
        p5   == IF len4 > 1 THEN p4 + 2 ELSE p4
        len5 == IF len4 > 1 THEN len4 - 2 ELSE len4
        s6   == IF len5 # 0
                THEN AccAdd(s5, odp_cpu_to_be_16(le, ByteAt(buf, p5 + 1) * 256), 0)
                ELSE s5
    IN  IF off1 # 0 THEN FlipBytes(s6) ELSE s6

\* chksum_finalize: sum = (sum >> 32) + (sum & 0xffffffff) leaves the low
\* 16 bits lo and the bits above them hi; sum = (sum >> 16) + (sum & 0xffff)
\* is hi + lo; the result is (uint16_t)((sum >> 16) + sum)
chksum_finalize(s) ==
    LET x0  == s[1] + s[3]
        lo  == x0 % LIMB
        hi  == s[2] + s[4] + (x0 \div LIMB)
        sum == hi + lo
    IN  ((sum \div LIMB) + sum) % LIMB

\* ~x of a uint16_t
Not16(x) == (LIMB - 1) - x

(***************************************************************************)
(* The checksum of RFC 1071 computed byte by byte: the byte at an even     *)
(* distance from the start of the header is the high byte of its 16 bit    *)
(* word, the byte at an odd distance the low byte.                         *)
(***************************************************************************)
RECURSIVE RefSum(_, _, _)
RefSum(buf, k, parity) ==
    IF k > Len(buf) THEN 0
    ELSE (IF (parity + k - 1) % 2 = 0 THEN buf[k] * 256 ELSE buf[k])
         + RefSum(buf, k + 1, parity)

RECURSIVE EndAroundFold(_)
EndAroundFold(x) ==
    IF x < LIMB THEN x ELSE EndAroundFold((x % LIMB) + (x \div LIMB))

RefChecksum(buf, parity) == Not16(EndAroundFold(RefSum(buf, 1, parity)))

(***************************************************************************)
(* gen_recv_thread, print_pkts and process_icmp_pkt.  An inbound packet is *)
(* a record of what the accessors return for it.                           *)
(***************************************************************************)
ODPH_IPPROTO_ICMPV4 == 1
ODPH_IPPROTO_UDP == 17
ICMP_ECHOREPLY == 0
ICMP_ECHO == 8
\* args->appl.payload = 56 in setup_icmp_pkt_ref (and the default of parse_args)
PING_PAYLOAD == 56
\* a protocol and an ICMP type the receiver has no branch for
OtherProto == ODPH_IPPROTO_UDP + 1
OtherIcmpType == ICMP_ECHO + 1

KeptDespiteError(pkt) == TRUE

KeptUnlessBadChecksum(pkt) == ~pkt.err /\ ~pkt.l3bad /\ ~pkt.l4bad

\* lines 860-864: a packet without the error flag goes into pkts[]
KeptForClassification(pkt) == ~pkt.err

ErroredNotFreed(pkt) == FALSE

\* lines 860-861: odp_packet_free of a packet with the error flag
FreedAsErrored(pkt) == pkt.err

\* the indices, in order, of the events that gen_recv_thread puts in pkts[]
RECURSIVE KeptIndices(_, _)
KeptIndices(events, k) ==
    IF k > Len(events) THEN <<>>
    ELSE (IF KeptForClassification(events[k]) THEN <<k>> ELSE <<>>)
         \o KeptIndices(events, k + 1)

ProcessIcmpCountsAnyType(pkt) == [reply |-> 1, msg |-> "ICMP Echo Reply"]

\* process_icmp_pkt: the change of ctr_icmp_reply_rcv and the message
process_icmp_pkt(pkt) ==
    IF pkt.icmp_type = ICMP_ECHOREPLY
    THEN [reply |-> 1, msg |-> "ICMP Echo Reply"]
    ELSE IF pkt.icmp_type = ICMP_ECHO
         THEN [reply |-> 0, msg |-> "Icmp Echo Request"]
         ELSE [reply |-> 0, msg |-> ""]

\* one round of the loop of print_pkts: the counter changes for one packet
PrintPkt(pkt) ==
    IF ~pkt.ipv4
    THEN [rcv |-> 0, udp |-> 0, reply |-> 0, msg |-> "skipped"]
    ELSE [rcv |-> 1,
          udp |-> IF pkt.proto = ODPH_IPPROTO_UDP THEN 1 ELSE 0,
          reply |-> IF pkt.proto = ODPH_IPPROTO_ICMPV4
                    THEN process_icmp_pkt(pkt).reply ELSE 0,
          msg |-> IF pkt.proto = ODPH_IPPROTO_ICMPV4
                  THEN process_icmp_pkt(pkt).msg ELSE "none"]

\* print_pkts over pkts[]: the sums of the counter changes
RECURSIVE PrintPkts(_, _, _)
PrintPkts(events, kept, j) ==
    IF j > Len(kept) THEN [rcv |-> 0, udp |-> 0, reply |-> 0]
    ELSE LET one == PrintPkt(events[kept[j]])
             rest == PrintPkts(events, kept, j + 1)
         IN  [rcv |-> one.rcv + rest.rcv, udp |-> one.udp + rest.udp,
              reply |-> one.reply + rest.reply]

InSeq(q, x) == \E j \in 1..Len(q) : q[j] = x

(***************************************************************************)
(* main and print_global_stats.                                            *)
(***************************************************************************)
\* lines 1067-1076: the worker count main goes on with, or 0 for exit
ResolveWorkers(m, asked) ==
    IF m = APPL_MODE_PING THEN (IF asked < 2 THEN 0 ELSE 2) ELSE asked

BarrierSizeWorkersOnly(n) == n

\* odp_barrier_init(&barrier, num_workers + 1)
BarrierSize(n) == n + 1

\* the order in which main creates the workers
CreateOrder(m, n) ==
    IF m = APPL_MODE_PING THEN <<PING_THR_RX, PING_THR_TX>>
    ELSE [k \in 1..n |-> k - 1]

\* the function each worker runs
WorkerRole(m, w) ==
    IF m = APPL_MODE_PING THEN (IF w = PING_THR_TX THEN "tx" ELSE "rx")
    ELSE IF m = APPL_MODE_UDP THEN "tx" ELSE "rx"

\* args->appl.payload after a sender has built its size reference packets:
\* setup_icmp_pkt_ref stores 56 before it allocates, setup_udp_pkt_ref
\* only reads the field
RefPayload(m, size, pl) ==
    IF m = APPL_MODE_PING /\ size > 0 THEN PING_PAYLOAD ELSE pl

StopNotCleared == TRUE

\* memset(args, 0, sizeof(*args)): thread[i].stop of a fresh run
InitialStop == FALSE

\* for (i = 0; i < num_workers; i++) args->thread[i].stop = 1
StopTargets(n) == 0 .. n - 1

\* COUNTER_SUM(_c, _nw) over a per-worker counter
RECURSIVE CounterSum(_, _)
CounterSum(ctr, nw) == IF nw = 0 THEN 0 ELSE ctr[nw - 1] + CounterSum(ctr, nw - 1)

CountReachedUnbounded(m, n, cnt) == m # APPL_MODE_RCV /\ cnt >= n

\* lines 927-931: the count is reached
CountReached(m, n, cnt) == m # APPL_MODE_RCV /\ n # -1 /\ cnt >= n

\* garceful_stop_ping: one evaluation of the loop; "stop" ends the wait
GraceStep(tmo, snd, rcv) ==
    IF tmo >= 0 /\ ~(rcv >= snd) THEN [done |-> FALSE, timeout |-> tmo - 1]
    ELSE [done |-> TRUE, timeout |-> tmo]

(***************************************************************************)
(* State.                                                                  *)
(***************************************************************************)
VARIABLES
    \* run configuration (args->appl, args->thread_cnt, args->tx_burst_size)
    mode, number, thread_cnt, tx_burst_size, little_endian,
    \* one send worker
    s_pc,               \* "start", "top", "send", "exit", "failed", "idle"
    stop,               \* thr_args->stop
    ctr_pkt_snd, ctr_pkt_snd_drop, ctr_seq,
    burst_start, burst_size,
    pkt_ref_array,      \* state of each reference packet
    pkt_array,          \* state of each alias of the current burst
    submits,            \* per slot: odp_pktout_send calls it was passed to
    frees,              \* per slot: times the worker freed the alias
    ids,                \* wire value of the id written by each refresh
    last_id,            \* wire id of the last refresh of the burst before, or -1
    iter,               \* record of the burst in progress / last completed
    \* one checksum computation
    chk_pc,             \* "idle", "ready", "done"
    chk_buf, chk_addr, chk_offset, chk_unaligned,
    chk_sum,            \* the accumulator chksum_partial returned
    chk_res,            \* chksum_finalize of it
    \* one receive worker
    rx_pc,              \* "idle", "loop", "exit"
    rx_stop,            \* thr_args->stop
    ctr_pkt_rcv, ctr_udp_rcv, ctr_icmp_reply_rcv,
    rx_events,          \* the events of the last odp_schedule_multi
    rx_frees,           \* per event: times it was freed
    rx_classified,      \* per event: whether print_pkts was given it
    rx_log,             \* per event: what print_pkts printed for it
    rx_prev,            \* the three counters before that iteration
    rx_iters,           \* iterations that dequeued events
    \* the whole run: main (coordinator and reporter) and its workers
    req_workers,        \* worker count asked for (-w, -c or the default)
    num_workers,        \* num_workers of main
    timeout,            \* args->appl.timeout
    payload,            \* args->appl.payload
    m_pc,               \* where main is
    m_next,             \* workers main has created
    barrier_size,       \* count given to odp_barrier_init
    barrier_cnt,        \* threads that have called odp_barrier_wait
    timing,             \* print_global_stats has taken its start time
    t_pc,               \* per worker: "none", "start", "barrier", "top",
                        \*   "exit", "failed", "killed"
    t_role,             \* per worker: "none", "tx", "rx"
    t_res,              \* per worker: queue, timer and timeout allocated
    t_stop,             \* per worker: thread[i].stop
    t_snd,              \* per worker: counters.ctr_pkt_snd
    t_reply,            \* per worker: counters.ctr_icmp_reply_rcv
    t_io,               \* per worker: it has sent or polled at least once
    \* the timed loop of one worker
    interval,           \* args->appl.interval
    tmo_state,          \* the worker's timeout event: "free", "armed", "queued"
    \* main's assignment of output queues to the UDP send workers
    asg_workers,        \* num_workers of main
    if_count,           \* args->appl.if_count
    max_output_queues,  \* per interface: capa.max_output_queues
    pktout_count,       \* per interface created so far: ifs[i].pktout_count
    tx_pktout,          \* per worker set up so far: <<if_idx, pktout_idx>>
    \* parse_args and the head of main
    a_pc,               \* "idle", "parse", "parsed", "create", "exit_failure"
    argv,               \* the command line
    cpu_count,          \* CPUs odp_cpumask_default_worker can give
    appl,               \* args->appl after parse_args
    \* one call of process_icmp_pkt for an echo reply
    rtt_pc,             \* "idle", "ready", "done"
    tsend,              \* the time the request carried (ns)
    trecv,              \* odp_time_local at the reply (ns)
    rtt,                \* rtt_ms and rtt_us
    msg,                \* the time part of the line printed
    \* one checksum computed over two segments of a buffer
    seg_pc,             \* "idle", "ready", "done"
    seg_buf,            \* the whole buffer
    seg_split,          \* length of its first segment
    seg_addr, seg_offset, seg_unaligned,
    seg_sum,            \* the sum of the two partial sums
    seg_res,            \* chksum_finalize of it
    \* the sequence cursors of the UDP send workers of one run
    cur_workers,        \* num_workers of main
    cur_pc,             \* per worker: "top", "exit"
    cur_seq,            \* per worker: counters.ctr_seq
    cur_bursts,         \* per worker and burst: the cursor values read
    \* one send worker and the transmit side of its interface
    io_pc,              \* "top", "exit"
    io_iters,           \* iterations of the send loop so far
    io_seq,             \* counters.ctr_seq
    io_ref,             \* per reference packet: the id its bytes hold
    io_stored,          \* aliases accepted and not yet transmitted
    io_wire             \* the packets transmitted: id at submission, id sent

cfgVars == <<mode, number, thread_cnt, tx_burst_size, little_endian>>
sendVars == <<s_pc, stop, ctr_pkt_snd, ctr_pkt_snd_drop, ctr_seq, burst_start,
              burst_size, pkt_ref_array, pkt_array, submits, frees, ids, last_id,
              iter>>
chkVars == <<chk_pc, chk_buf, chk_addr, chk_offset, chk_unaligned, chk_sum,
             chk_res>>
recvVars == <<rx_pc, rx_stop, ctr_pkt_rcv, ctr_udp_rcv, ctr_icmp_reply_rcv,
              rx_events, rx_frees, rx_classified, rx_log, rx_prev, rx_iters>>
runVars == <<req_workers, num_workers, timeout, payload, m_pc, m_next, barrier_size,
             barrier_cnt, timing, t_pc, t_role, t_res, t_stop, t_snd, t_reply,
             t_io>>
loopVars == <<interval, tmo_state>>
pktioVars == <<asg_workers, if_count, max_output_queues, pktout_count,
               tx_pktout>>
argVars == <<a_pc, argv, cpu_count, appl>>
rttVars == <<rtt_pc, tsend, trecv, rtt, msg>>
segVars == <<seg_pc, seg_buf, seg_split, seg_addr, seg_offset, seg_unaligned,
             seg_sum, seg_res>>
curVars == <<cur_workers, cur_pc, cur_seq, cur_bursts>>

ioVars == <<io_pc, io_iters, io_seq, io_ref, io_stored, io_wire>>

vars == <<cfgVars, sendVars, chkVars, recvVars, runVars, loopVars, pktioVars,
          argVars, rttVars, segVars,
          curVars,
          ioVars>>

NoIter == [state |-> "none", size |-> 0, first |-> -2, calls |-> 0,
           snd0 |-> 0, drop0 |-> 0, failAt |-> -1, accepted |-> 0]

IdleRun ==
    /\ req_workers = 0
    /\ payload = PING_PAYLOAD
    /\ num_workers = 0
    /\ timeout = -1
    /\ m_pc = "idle"
    /\ m_next = 0
    /\ barrier_size = 0
    /\ barrier_cnt = 0
    /\ timing = FALSE
    /\ t_pc = <<>>
    /\ t_role = <<>>
    /\ t_res = <<>>
    /\ t_stop = <<>>
    /\ t_snd = <<>>
    /\ t_reply = <<>>
    /\ t_io = <<>>

IdleArgs ==
    /\ a_pc = "idle"
    /\ argv = <<>>
    /\ cpu_count = 0
    /\ appl = <<>>

IdleRtt ==
    /\ rtt_pc = "idle"
    /\ tsend = 0
    /\ trecv = 0
    /\ rtt = <<0, 0>>
    /\ msg = ""

IdleSeg ==
    /\ seg_pc = "idle"
    /\ seg_buf = Flat(<<>>)
    /\ seg_split = 0
    /\ seg_addr = 0
    /\ seg_offset = 0
    /\ seg_unaligned = FALSE
    /\ seg_sum = Acc0
    /\ seg_res = 0

IdleCur ==
    /\ cur_workers = 0
    /\ cur_pc = <<>>
    /\ cur_seq = <<>>
    /\ cur_bursts = <<>>

IdleIo ==
    /\ io_pc = "idle"
    /\ io_iters = 0
    /\ io_seq = 0
    /\ io_ref = <<>>
    /\ io_stored = <<>>
    /\ io_wire = <<>>

IdlePktio ==
    /\ asg_workers = 0
    /\ if_count = 0
    /\ max_output_queues = <<>>
    /\ pktout_count = <<>>
    /\ tx_pktout = <<>>

IdleLoop ==
    /\ interval = 0
    /\ tmo_state = "free"

IdleRecv ==
    /\ rx_pc = "idle"
    /\ rx_stop = FALSE
    /\ ctr_pkt_rcv = 0
    /\ ctr_udp_rcv = 0
    /\ ctr_icmp_reply_rcv = 0
    /\ rx_events = <<>>
    /\ rx_frees = <<>>
    /\ rx_classified = <<>>
    /\ rx_log = <<>>
    /\ rx_prev = <<0, 0, 0>>
    /\ rx_iters = 0

IdleChk ==
    /\ chk_pc = "idle"
    /\ chk_buf = <<>>
    /\ chk_addr = 0
    /\ chk_offset = 0
    /\ chk_unaligned = FALSE
    /\ chk_sum = Acc0
    /\ chk_res = 0

(***************************************************************************)
(* gen_send_thread.                                                        *)
(***************************************************************************)
InitSendWorker ==
    /\ s_pc = "start"
    /\ stop = FALSE
    /\ ctr_pkt_snd = 0
    /\ ctr_pkt_snd_drop = 0
    /\ ctr_seq = 0
    /\ burst_start = 0
    /\ burst_size = 0
    /\ pkt_ref_array = <<>>
    /\ pkt_array = <<>>
    /\ submits = <<>>
    /\ frees = <<>>
    /\ ids = <<>>
    /\ last_id = -1
    /\ iter = NoIter

\* lines 646-677: the reference packets are built; a failure returns -1
SendThreadStart ==
    /\ s_pc = "start"
    /\ \E failAt \in 0..tx_burst_size :
          LET r == setup_pkt_ref_array(tx_burst_size, failAt)
          IN  /\ pkt_ref_array' = r.arr
              /\ s_pc' = IF r.ret # 0 THEN "failed" ELSE "top"
              /\ iter' = [NoIter EXCEPT !.failAt = failAt, !.size = tx_burst_size]
    /\ UNCHANGED <<cfgVars, ioVars, curVars, argVars, rttVars, segVars, pktioVars, loopVars, chkVars, recvVars, runVars, stop, ctr_pkt_snd, ctr_pkt_snd_drop, ctr_seq,
                   burst_start, burst_size, pkt_array, submits, frees, ids,
                   last_id>>

\* lines 680-681 and 734: the stop flag ends the loop, the templates are freed
SendThreadStop ==
    /\ s_pc = "top"
    /\ stop
    /\ s_pc' = "exit"
    /\ pkt_ref_array' = [k \in 1..tx_burst_size |-> "freed"]
    /\ UNCHANGED <<cfgVars, ioVars, curVars, argVars, rttVars, segVars, pktioVars, loopVars, chkVars, recvVars, runVars, stop, ctr_pkt_snd, ctr_pkt_snd_drop, ctr_seq,
                   burst_start, burst_size, pkt_array, submits, frees, ids,
                   last_id, iter>>

\* lines 683-686: the quota is used up, sleep(1) and look at stop again
SendThreadWait ==
    /\ s_pc = "top"
    /\ ~stop
    /\ QuotaReached(PktCountMax(mode, number, thread_cnt), ctr_pkt_snd)
    /\ UNCHANGED vars

\* lines 688-698: the burst is refreshed and aliased
SendThreadSetup ==
    /\ s_pc = "top"
    /\ ~stop
    /\ ~QuotaReached(PktCountMax(mode, number, thread_cnt), ctr_pkt_snd)
    /\ ctr_seq <= MaxSeqSend
    /\ \E failAt \in 0..tx_burst_size :
          LET r == setup_pkt_array(tx_burst_size, failAt)
          IN  /\ pkt_array' = r.arr
              /\ ids' = [k \in 1..r.refreshed |->
                           WireU16(setup_pkt(mode, little_endian, ctr_seq + k - 1))]
              /\ last_id' = IF Len(ids) > 0 THEN ids[Len(ids)] ELSE last_id
              /\ ctr_seq' = ctr_seq + r.refreshed
              /\ submits' = [k \in 1..tx_burst_size |-> 0]
              /\ frees' = [k \in 1..tx_burst_size |->
                             IF r.arr[k] = "freed" THEN 1 ELSE 0]
              /\ iter' = [state |-> IF r.ret # 0 THEN "setup_failed" ELSE "sending",
                          size |-> tx_burst_size, first |-> -2, calls |-> 0,
                          snd0 |-> ctr_pkt_snd, drop0 |-> ctr_pkt_snd_drop,
                          failAt |-> failAt, accepted |-> 0]
              /\ IF r.ret # 0
                 THEN /\ s_pc' = "exit"
                      /\ pkt_ref_array' = [k \in 1..tx_burst_size |-> "freed"]
                      /\ UNCHANGED <<burst_start, burst_size>>
                 ELSE /\ s_pc' = "send"
                      /\ burst_start' = 0
                      /\ burst_size' = tx_burst_size
                      /\ UNCHANGED pkt_ref_array
    /\ UNCHANGED <<cfgVars, ioVars, curVars, argVars, rttVars, segVars, pktioVars, loopVars, chkVars, recvVars, runVars, stop, ctr_pkt_snd, ctr_pkt_snd_drop>>

\* lines 699-731: one odp_pktout_send call and what follows it
SendThreadSend ==
    /\ s_pc = "send"
    /\ iter.calls < MaxCalls
    /\ \E ret \in -1..burst_size :
          LET p == SendPass(burst_start, burst_size, ret)
          IN  /\ burst_start' = p.bstart
              /\ burst_size' = p.bsize
              /\ ctr_pkt_snd_drop' = ctr_pkt_snd_drop + p.drop
              /\ submits' = [k \in 1..tx_burst_size |->
                               IF k \in burst_start + 1 .. burst_start + burst_size
                               THEN submits[k] + 1 ELSE submits[k]]
              /\ pkt_array' = [k \in 1..tx_burst_size |->
                                 IF k \in p.sent THEN "sent"
                                 ELSE IF k \in p.freed THEN "freed"
                                 ELSE pkt_array[k]]
              /\ frees' = [k \in 1..tx_burst_size |->
                             IF k \in p.freed THEN frees[k] + 1 ELSE frees[k]]
              /\ IF p.again
                 THEN /\ s_pc' = "send"
                      /\ iter' = [iter EXCEPT
                                    !.first = IF iter.calls = 0 THEN ret ELSE @,
                                    !.calls = @ + 1,
                                    !.accepted = @ + ret]
                      /\ UNCHANGED <<ctr_pkt_snd, ctr_seq>>
                 ELSE /\ s_pc' = "top"
                      /\ ctr_pkt_snd' = ctr_pkt_snd + SentDelta(tx_burst_size, p.bsize)
                      /\ ctr_seq' = ctr_seq + SeqStep(mode, tx_burst_size, thread_cnt)
                      /\ iter' = [iter EXCEPT
                                    !.state = "done",
                                    !.first = IF iter.calls = 0 THEN ret ELSE @,
                                    !.calls = @ + 1,
                                    !.accepted = @ + (IF ret > 0 THEN ret ELSE 0)]
    /\ UNCHANGED <<cfgVars, ioVars, curVars, argVars, rttVars, segVars, pktioVars, loopVars, chkVars, recvVars, runVars, stop, pkt_ref_array, ids, last_id>>

\* print_global_stats lines 926-935 and 989-990, seen from the one send
\* worker: the count is reached, or the worker thread is gone
ReporterStop ==
    /\ s_pc \in {"top", "send", "exit"}
    /\ ~stop
    /\ \/ number # -1 /\ ctr_pkt_snd >= number
       \/ s_pc = "exit"
    /\ stop' = TRUE
    /\ UNCHANGED <<cfgVars, ioVars, curVars, argVars, rttVars, segVars, pktioVars, loopVars, chkVars, recvVars, runVars, s_pc, ctr_pkt_snd, ctr_pkt_snd_drop, ctr_seq,
                   burst_start, burst_size, pkt_ref_array, pkt_array, submits,
                   frees, ids, last_id, iter>>

InitSend ==
    /\ IdleIo
    /\ IdleCur
    /\ IdleArgs
    /\ IdleRtt
    /\ IdleSeg
    /\ mode \in {APPL_MODE_UDP, APPL_MODE_PING}
    /\ number \in {-1} \cup 1..MaxNumber
    /\ thread_cnt = IF mode = APPL_MODE_PING THEN 2 ELSE 1
    /\ \E x \in 1..MaxBurst : tx_burst_size = TxBurstSize(mode, x)
    /\ little_endian \in BOOLEAN
    /\ InitSendWorker
    /\ IdleLoop
    /\ IdlePktio
    /\ IdleChk
    /\ IdleRecv
    /\ IdleRun

NextSend ==
    \/ SendThreadStart
    \/ SendThreadStop
    \/ SendThreadWait
    \/ SendThreadSetup
    \/ SendThreadSend
    \/ ReporterStop

SpecSend == InitSend /\ [][NextSend]_vars


(***************************************************************************)
(* SpecSeq: the loop iterations of one send worker in which every alias is *)
(* produced and the I/O layer accepts the whole burst, followed far enough *)
(* for the 16 bit sequence number to wrap.                                 *)
(***************************************************************************)
SeqBurst ==
    /\ s_pc = "top"
    /\ ctr_seq <= MaxSeq
    /\ LET r == setup_pkt_array(tx_burst_size, tx_burst_size)
           p == SendPass(0, tx_burst_size, tx_burst_size)
       IN  /\ ids' = [k \in 1..r.refreshed |->
                        WireU16(setup_pkt(mode, little_endian, ctr_seq + k - 1))]
           /\ last_id' = IF Len(ids) > 0 THEN ids[Len(ids)] ELSE last_id
           /\ ctr_seq' = ctr_seq + r.refreshed
                             + SeqStep(mode, tx_burst_size, thread_cnt)
           /\ ctr_pkt_snd' = ctr_pkt_snd + SentDelta(tx_burst_size, p.bsize)
    /\ UNCHANGED <<cfgVars, ioVars, curVars, argVars, rttVars, segVars, pktioVars, loopVars, chkVars, recvVars, runVars, s_pc, stop, ctr_pkt_snd_drop, burst_start, burst_size,
                   pkt_ref_array, pkt_array, submits, frees, iter>>

InitSeq ==
    /\ IdleIo
    /\ IdleCur
    /\ IdleArgs
    /\ IdleRtt
    /\ IdleSeg
    /\ mode \in {APPL_MODE_UDP, APPL_MODE_PING}
    /\ number = -1
    /\ thread_cnt = IF mode = APPL_MODE_PING THEN 2 ELSE 1
    /\ \E x \in {DEFAULT_UDP_TX_BURST, MAX_UDP_TX_BURST} :
          tx_burst_size = TxBurstSize(mode, x)
    /\ little_endian \in BOOLEAN
    /\ s_pc = "top"
    /\ stop = FALSE
    /\ ctr_pkt_snd = 0
    /\ ctr_pkt_snd_drop = 0
    /\ ctr_seq = 0
    /\ burst_start = 0
    /\ burst_size = 0
    /\ pkt_ref_array = [k \in 1..tx_burst_size |-> "alloc"]
    /\ pkt_array = <<>>
    /\ submits = <<>>
    /\ frees = <<>>
    /\ ids = <<>>
    /\ last_id = -1
    /\ iter = NoIter
    /\ IdleLoop
    /\ IdlePktio
    /\ IdleChk
    /\ IdleRecv
    /\ IdleRun

NextSeq == SeqBurst

SpecSeq == InitSeq /\ [][NextSeq]_vars

(***************************************************************************)
(* SpecChk: chksum_partial and chksum_finalize applied to one buffer.  The *)
(* buffers are arithmetic byte patterns of every length up to MaxLen, at   *)
(* every address alignment, on both kinds of build (_ODP_UNALIGNED or not, *)
(* little or big endian).                                                  *)
(***************************************************************************)
ChkBases == {0, 129, 255}
ChkStrides == {0, 1, 85}
ChkOffsets == 0..3

Pattern(len, base, stride) == [k \in 1..len |-> (base + (k - 1) * stride) % 256]

IdleSend ==
    /\ mode = APPL_MODE_RCV
    /\ number = -1
    /\ thread_cnt = 1
    /\ tx_burst_size = 0
    /\ s_pc = "idle"
    /\ stop = FALSE
    /\ ctr_pkt_snd = 0
    /\ ctr_pkt_snd_drop = 0
    /\ ctr_seq = 0
    /\ burst_start = 0
    /\ burst_size = 0
    /\ pkt_ref_array = <<>>
    /\ pkt_array = <<>>
    /\ submits = <<>>
    /\ frees = <<>>
    /\ ids = <<>>
    /\ last_id = -1
    /\ iter = NoIter

InitChk ==
    /\ IdleIo
    /\ IdleCur
    /\ IdleArgs
    /\ IdleRtt
    /\ IdleSeg
    /\ IdleLoop
    /\ IdlePktio
    /\ IdleSend
    /\ IdleRecv
    /\ IdleRun
    /\ little_endian \in BOOLEAN
    /\ chk_pc = "ready"
    /\ \E len \in 0..MaxLen, base \in ChkBases, stride \in ChkStrides :
          chk_buf = Pattern(len, base, stride)
    /\ chk_addr \in 0..3
    /\ chk_offset \in ChkOffsets
    /\ chk_unaligned \in BOOLEAN
    /\ chk_sum = Acc0
    /\ chk_res = 0

ChkCompute ==
    /\ chk_pc = "ready"
    /\ chk_pc' = "done"
    /\ chk_sum' = chksum_partial(little_endian, chk_unaligned, Flat(chk_buf), chk_addr,
                                 chk_offset)
    /\ chk_res' = chksum_finalize(chk_sum')
    /\ UNCHANGED <<cfgVars, ioVars, curVars, argVars, rttVars, segVars, pktioVars, loopVars, sendVars, recvVars, runVars, chk_buf, chk_addr, chk_offset, chk_unaligned>>

NextChk == ChkCompute

SpecChk == InitChk /\ [][NextChk]_vars

\* C9: for every buffer, length, alignment, build and offset parity, the
\* complement of chksum_finalize(chksum_partial(...)), as it lies in memory,
\* is the byte-by-byte RFC 1071 checksum of the bytes at that offset parity.
C9_ChecksumMatchesReference ==
    chk_pc = "done" =>
        WireU16(StoreU16(little_endian, Not16(chk_res)))
            = RefChecksum(chk_buf, chk_offset % 2)

\* an odd length buffer at an odd address, longer than one main-loop round,
\* summed on the align-first path at an odd offset
C9_Witness ==
    /\ chk_pc = "done"
    /\ ~chk_unaligned
    /\ chk_addr = 3
    /\ chk_offset = 1
    /\ Len(chk_buf) = 39
    /\ chk_buf[2] # chk_buf[3]
    /\ chk_res # 0

(***************************************************************************)
(* SpecRecv: one receive worker.  Every odp_schedule_multi returns up to   *)
(* MaxEvents packets of the kinds below.                                   *)
(***************************************************************************)
Pkt(e, v, p, t, b3, b4) ==
    [err |-> e, ipv4 |-> v, proto |-> p, icmp_type |-> t, l3bad |-> b3,
     l4bad |-> b4]

Packets ==
    {Pkt(FALSE, FALSE, ODPH_IPPROTO_UDP, ICMP_ECHOREPLY, FALSE, FALSE),
     Pkt(FALSE, TRUE, ODPH_IPPROTO_UDP, ICMP_ECHOREPLY, FALSE, FALSE),
     Pkt(FALSE, TRUE, ODPH_IPPROTO_UDP, ICMP_ECHOREPLY, FALSE, TRUE),
     Pkt(FALSE, TRUE, OtherProto, OtherIcmpType, FALSE, FALSE),
     Pkt(FALSE, TRUE, ODPH_IPPROTO_ICMPV4, ICMP_ECHOREPLY, FALSE, FALSE),
     Pkt(FALSE, TRUE, ODPH_IPPROTO_ICMPV4, ICMP_ECHOREPLY, TRUE, FALSE),
     Pkt(FALSE, TRUE, ODPH_IPPROTO_ICMPV4, ICMP_ECHO, FALSE, FALSE),
     Pkt(TRUE, TRUE, ODPH_IPPROTO_UDP, ICMP_ECHOREPLY, FALSE, TRUE),
     Pkt(TRUE, TRUE, ODPH_IPPROTO_ICMPV4, ICMP_ECHOREPLY, FALSE, FALSE)}

InitRecv ==
    /\ IdleIo
    /\ IdleCur
    /\ IdleArgs
    /\ IdleRtt
    /\ IdleSeg
    /\ mode \in {APPL_MODE_RCV, APPL_MODE_PING}
    /\ number = -1
    /\ thread_cnt = IF mode = APPL_MODE_PING THEN 2 ELSE 1
    /\ tx_burst_size = TxBurstSize(mode, DEFAULT_UDP_TX_BURST)
    /\ little_endian = TRUE
    /\ s_pc = "idle"
    /\ stop = FALSE
    /\ ctr_pkt_snd = 0
    /\ ctr_pkt_snd_drop = 0
    /\ ctr_seq = 0
    /\ burst_start = 0
    /\ burst_size = 0
    /\ pkt_ref_array = <<>>
    /\ pkt_array = <<>>
    /\ submits = <<>>
    /\ frees = <<>>
    /\ ids = <<>>
    /\ last_id = -1
    /\ iter = NoIter
    /\ IdleLoop
    /\ IdlePktio
    /\ IdleChk
    /\ rx_pc = "loop"
    /\ rx_stop = FALSE
    /\ ctr_pkt_rcv = 0
    /\ ctr_udp_rcv = 0
    /\ ctr_icmp_reply_rcv = 0
    /\ rx_events = <<>>
    /\ rx_frees = <<>>
    /\ rx_classified = <<>>
    /\ rx_log = <<>>
    /\ rx_prev = <<0, 0, 0>>
    /\ rx_iters = 0
    /\ IdleRun

\* lines 840-841
RecvThreadStop ==
    /\ rx_pc = "loop"
    /\ rx_stop
    /\ rx_pc' = "exit"
    /\ UNCHANGED <<cfgVars, ioVars, curVars, argVars, rttVars, segVars, pktioVars, loopVars, sendVars, chkVars, runVars, rx_stop, ctr_pkt_rcv, ctr_udp_rcv,
                   ctr_icmp_reply_rcv, rx_events, rx_frees, rx_classified, rx_log,
                   rx_prev, rx_iters>>

\* lines 844-847: nothing was scheduled
RecvThreadEmpty ==
    /\ rx_pc = "loop"
    /\ ~rx_stop
    /\ UNCHANGED vars

\* lines 844-871: one iteration that dequeued events
RecvThreadBurst ==
    /\ rx_pc = "loop"
    /\ ~rx_stop
    /\ rx_iters < MaxRxIters
    /\ \E n \in 1..Min(MaxEvents, MAX_RX_BURST) :
         \E events \in [1..n -> Packets] :
            LET kept == KeptIndices(events, 1)
                d == PrintPkts(events, kept, 1)
            IN  /\ rx_events' = events
                /\ rx_classified' = [k \in 1..n |-> InSeq(kept, k)]
                /\ rx_frees' = [k \in 1..n |->
                                  (IF FreedAsErrored(events[k]) THEN 1 ELSE 0)
                                  + (IF InSeq(kept, k) THEN 1 ELSE 0)]
                /\ rx_log' = [k \in 1..n |->
                                IF InSeq(kept, k) THEN PrintPkt(events[k]).msg
                                ELSE "dropped"]
                /\ rx_prev' = <<ctr_pkt_rcv, ctr_udp_rcv, ctr_icmp_reply_rcv>>
                /\ ctr_pkt_rcv' = ctr_pkt_rcv + d.rcv
                /\ ctr_udp_rcv' = ctr_udp_rcv + d.udp
                /\ ctr_icmp_reply_rcv' = ctr_icmp_reply_rcv + d.reply
    /\ rx_iters' = rx_iters + 1
    /\ UNCHANGED <<cfgVars, ioVars, curVars, argVars, rttVars, segVars, pktioVars, loopVars, sendVars, chkVars, runVars, rx_pc, rx_stop>>

\* print_global_stats lines 989-990 seen from the receive worker: in ping
\* mode the stop follows the sender's count, which may be reached at any time
ReporterStopRecv ==
    /\ rx_pc = "loop"
    /\ mode = APPL_MODE_PING
    /\ ~rx_stop
    /\ rx_stop' = TRUE
    /\ UNCHANGED <<cfgVars, ioVars, curVars, argVars, rttVars, segVars, pktioVars, loopVars, sendVars, chkVars, runVars, rx_pc, ctr_pkt_rcv, ctr_udp_rcv,
                   ctr_icmp_reply_rcv, rx_events, rx_frees, rx_classified, rx_log,
                   rx_prev, rx_iters>>

NextRecv ==
    \/ RecvThreadStop
    \/ RecvThreadEmpty
    \/ RecvThreadBurst
    \/ ReporterStopRecv

SpecRecv == InitRecv /\ [][NextRecv]_vars

\* the events of the last burst that carry no error flag
ErrorFree == {k \in DOMAIN rx_events : ~rx_events[k].err}

\* C10: a packet with the hard error flag never increments received,
\* udp-received or icmp-echo-reply-received, is never given to print_pkts
\* and is freed exactly once.
C10_ErroredPacketDropped ==
    /\ \A k \in DOMAIN rx_events :
          rx_events[k].err =>
              /\ ~rx_classified[k]
              /\ rx_frees[k] = 1
              /\ rx_log[k] = "dropped"
    /\ ctr_pkt_rcv - rx_prev[1] <= Cardinality(ErrorFree)
    /\ ctr_udp_rcv - rx_prev[2] <= Cardinality(ErrorFree)
    /\ ctr_icmp_reply_rcv - rx_prev[3] <= Cardinality(ErrorFree)
    /\ (ErrorFree = {}) =>
          <<ctr_pkt_rcv, ctr_udp_rcv, ctr_icmp_reply_rcv>> = rx_prev

\* a burst of an errored UDP packet and an errored echo reply, both IPv4
C10_Witness ==
    /\ Len(rx_events) = 2
    /\ rx_events[1].err /\ rx_events[1].ipv4
    /\ rx_events[1].proto = ODPH_IPPROTO_UDP
    /\ rx_events[2].err /\ rx_events[2].ipv4
    /\ rx_events[2].proto = ODPH_IPPROTO_ICMPV4
    /\ rx_events[2].icmp_type = ICMP_ECHOREPLY
    /\ rx_frees = <<1, 1>>

(***************************************************************************)
(* SpecRun: the whole run.  main resolves the worker count, creates the    *)
(* workers one by one, then runs print_global_stats and joins; every       *)
(* worker builds its packets, waits at the barrier and loops.  One action  *)
(* of a worker is one iteration of its loop.                               *)
(***************************************************************************)
Workers == 0 .. RunMaxWorkers - 1

InitRun ==
    /\ IdleIo
    /\ IdleCur
    /\ IdleArgs
    /\ IdleRtt
    /\ IdleSeg
    /\ mode \in {APPL_MODE_UDP, APPL_MODE_PING, APPL_MODE_RCV}
    /\ number \in {-1} \cup 1..RunMaxNumber
    /\ thread_cnt = 0
    /\ tx_burst_size = 0
    /\ little_endian = TRUE
    /\ s_pc = "idle"
    /\ stop = FALSE
    /\ ctr_pkt_snd = 0
    /\ ctr_pkt_snd_drop = 0
    /\ ctr_seq = 0
    /\ burst_start = 0
    /\ burst_size = 0
    /\ pkt_ref_array = <<>>
    /\ pkt_array = <<>>
    /\ submits = <<>>
    /\ frees = <<>>
    /\ ids = <<>>
    /\ last_id = -1
    /\ iter = NoIter
    /\ IdleLoop
    /\ IdlePktio
    /\ IdleChk
    /\ IdleRecv
    /\ req_workers \in 1..RunMaxWorkers
    /\ num_workers = 0
    /\ timeout \in -1..RunMaxTimeout
    /\ payload \in {PING_PAYLOAD, PING_PAYLOAD + 8}
    /\ m_pc = "setup"
    /\ m_next = 0
    /\ barrier_size = 0
    /\ barrier_cnt = 0
    /\ timing = FALSE
    /\ t_pc = [w \in Workers |-> "none"]
    /\ t_role = [w \in Workers |-> "none"]
    /\ t_res = [w \in Workers |-> FALSE]
    /\ t_stop = [w \in Workers |-> InitialStop]
    /\ t_snd = [w \in Workers |-> 0]
    /\ t_reply = [w \in Workers |-> 0]
    /\ t_io = [w \in Workers |-> FALSE]

\* lines 1045-1084 and 1165
MainSetup ==
    /\ m_pc = "setup"
    /\ \E x \in 1..RunMaxBurst :
          LET n == ResolveWorkers(mode, req_workers)
          IN  IF n = 0
              THEN /\ m_pc' = "exit_failure"
                   /\ UNCHANGED <<num_workers, thread_cnt, tx_burst_size,
                                  barrier_size>>
              ELSE /\ m_pc' = "create"
                   /\ num_workers' = n
                   /\ thread_cnt' = n
                   /\ tx_burst_size' = TxBurstSize(mode, x)
                   /\ barrier_size' = BarrierSize(n)
    /\ UNCHANGED <<mode, number, little_endian, argVars, ioVars, curVars, rttVars, segVars, pktioVars, loopVars, sendVars, chkVars, recvVars,
                   req_workers, timeout, payload, m_next, barrier_cnt, timing, t_pc, t_role,
                   t_res, t_stop, t_snd, t_reply, t_io>>

\* lines 1176-1238 and 1243-1307: the next worker gets its queue, timer and
\* timeout event and is started; a failed allocation ends in abort()
MainCreateWorker ==
    /\ m_pc = "create"
    /\ m_next < num_workers
    /\ LET w == CreateOrder(mode, num_workers)[m_next + 1]
       IN  \E ok \in BOOLEAN :
              IF ok
              THEN /\ t_res' = [t_res EXCEPT ![w] = TRUE]
                   /\ t_role' = [t_role EXCEPT ![w] = WorkerRole(mode, w)]
                   /\ t_pc' = [t_pc EXCEPT ![w] = "start"]
                   /\ m_next' = m_next + 1
                   /\ UNCHANGED m_pc
              ELSE /\ m_pc' = "aborted"
                   /\ t_pc' = [v \in Workers |->
                                 IF t_pc[v] = "none" THEN "none" ELSE "killed"]
                   /\ UNCHANGED <<t_res, t_role, m_next>>
    /\ UNCHANGED <<cfgVars, ioVars, curVars, argVars, rttVars, segVars, pktioVars, loopVars, sendVars, chkVars, recvVars, req_workers, num_workers,
                   timeout, payload, barrier_size, barrier_cnt, timing, t_stop, t_snd,
                   t_reply, t_io>>

\* lines 1310 and 921: main calls print_global_stats, which waits
MainBarrierArrive ==
    /\ m_pc = "create"
    /\ m_next = num_workers
    /\ m_pc' = "barrier"
    /\ barrier_cnt' = barrier_cnt + 1
    /\ UNCHANGED <<cfgVars, ioVars, curVars, argVars, rttVars, segVars, pktioVars, loopVars, sendVars, chkVars, recvVars, req_workers, num_workers,
                   timeout, payload, m_next, barrier_size, timing, t_pc, t_role, t_res,
                   t_stop, t_snd, t_reply, t_io>>

\* lines 921-924: the barrier opens and the reporter takes its start time
MainBarrierPass ==
    /\ m_pc = "barrier"
    /\ barrier_cnt >= barrier_size
    /\ m_pc' = "loop"
    /\ timing' = TRUE
    /\ UNCHANGED <<cfgVars, ioVars, curVars, argVars, rttVars, segVars, pktioVars, loopVars, sendVars, chkVars, recvVars, req_workers, num_workers,
                   timeout, payload, m_next, barrier_size, barrier_cnt, t_pc, t_role, t_res,
                   t_stop, t_snd, t_reply, t_io>>

LiveWorkers == Cardinality({w \in Workers : t_pc[w] \in {"start", "barrier", "top"}})

StopAll == t_stop' = [w \in Workers |->
                        IF w \in StopTargets(num_workers) THEN TRUE ELSE t_stop[w]]

\* lines 926-990: one evaluation of the reporter's loop
ReporterLoop ==
    /\ m_pc = "loop"
    /\ IF LiveWorkers # num_workers
       THEN /\ StopAll
            /\ m_pc' = "join"
       ELSE IF CountReached(mode, number, CounterSum(t_snd, num_workers))
       THEN IF mode = APPL_MODE_PING
            THEN /\ m_pc' = "grace"
                 /\ UNCHANGED t_stop
            ELSE /\ StopAll
                 /\ m_pc' = "join"
       ELSE UNCHANGED <<m_pc, t_stop>>
    /\ UNCHANGED <<cfgVars, ioVars, curVars, argVars, rttVars, segVars, pktioVars, loopVars, sendVars, chkVars, recvVars, req_workers, num_workers,
                   timeout, payload, m_next, barrier_size, barrier_cnt, timing, t_pc, t_role,
                   t_res, t_snd, t_reply, t_io>>

\* lines 888-904 and 989-990: one poll of garceful_stop_ping
ReporterGrace ==
    /\ m_pc = "grace"
    /\ LET g == GraceStep(timeout, CounterSum(t_snd, 2), CounterSum(t_reply, 2))
       IN  /\ timeout' = g.timeout
           /\ IF g.done
              THEN /\ StopAll
                   /\ m_pc' = "join"
              ELSE UNCHANGED <<m_pc, t_stop>>
    /\ UNCHANGED <<cfgVars, ioVars, curVars, argVars, rttVars, segVars, pktioVars, loopVars, sendVars, chkVars, recvVars, req_workers, num_workers,
                   payload, m_next, barrier_size, barrier_cnt, timing, t_pc, t_role, t_res,
                   t_snd, t_reply, t_io>>

\* lines 1313-1314: every worker has returned
MainJoin ==
    /\ m_pc = "join"
    /\ \A w \in StopTargets(num_workers) : t_pc[w] \in {"exit", "failed"}
    /\ m_pc' = "done"
    /\ UNCHANGED <<cfgVars, ioVars, curVars, argVars, rttVars, segVars, pktioVars, loopVars, sendVars, chkVars, recvVars, req_workers, num_workers,
                   timeout, payload, m_next, barrier_size, barrier_cnt, timing, t_pc, t_role,
                   t_res, t_stop, t_snd, t_reply, t_io>>

\* gen_send_thread lines 646-677 and gen_recv_thread lines 836-837: a sender
\* builds its reference packets and returns -1 if that fails; then the
\* worker calls odp_barrier_wait
WorkerStart(w) ==
    /\ t_pc[w] = "start"
    /\ \E failAt \in 0..tx_burst_size :
          LET r == setup_pkt_ref_array(tx_burst_size, failAt)
          IN  IF t_role[w] = "tx" /\ r.ret # 0
              THEN /\ t_pc' = [t_pc EXCEPT ![w] = "failed"]
                   /\ UNCHANGED barrier_cnt
              ELSE /\ t_pc' = [t_pc EXCEPT ![w] = "barrier"]
                   /\ barrier_cnt' = barrier_cnt + 1
    /\ payload' = IF t_role[w] = "tx"
                  THEN RefPayload(mode, tx_burst_size, payload) ELSE payload
    /\ UNCHANGED <<cfgVars, ioVars, curVars, argVars, rttVars, segVars, pktioVars, loopVars, sendVars, chkVars, recvVars, req_workers, num_workers,
                   timeout, m_pc, m_next, barrier_size, timing, t_role, t_res,
                   t_stop, t_snd, t_reply, t_io>>

WorkerBarrierPass(w) ==
    /\ t_pc[w] = "barrier"
    /\ barrier_cnt >= barrier_size
    /\ t_pc' = [t_pc EXCEPT ![w] = "top"]
    /\ UNCHANGED <<cfgVars, ioVars, curVars, argVars, rttVars, segVars, pktioVars, loopVars, sendVars, chkVars, recvVars, req_workers, num_workers,
                   timeout, payload, m_pc, m_next, barrier_size, barrier_cnt, timing, t_role,
                   t_res, t_stop, t_snd, t_reply, t_io>>

\* lines 680-681 and 840-841
WorkerStop(w) ==
    /\ t_pc[w] = "top"
    /\ t_stop[w]
    /\ t_pc' = [t_pc EXCEPT ![w] = "exit"]
    /\ UNCHANGED <<cfgVars, ioVars, curVars, argVars, rttVars, segVars, pktioVars, loopVars, sendVars, chkVars, recvVars, req_workers, num_workers,
                   timeout, payload, m_pc, m_next, barrier_size, barrier_cnt, timing, t_role,
                   t_res, t_stop, t_snd, t_reply, t_io>>

\* lines 683-686
WorkerQuotaWait(w) ==
    /\ t_pc[w] = "top"
    /\ t_role[w] = "tx"
    /\ ~t_stop[w]
    /\ QuotaReached(PktCountMax(mode, number, thread_cnt), t_snd[w])
    /\ UNCHANGED vars

\* lines 688-731: one iteration of the send loop; the alias of slot failAt
\* cannot be made, or the inner loop ends with left packets not accepted
WorkerSend(w) ==
    /\ t_pc[w] = "top"
    /\ t_role[w] = "tx"
    /\ ~t_stop[w]
    /\ ~QuotaReached(PktCountMax(mode, number, thread_cnt), t_snd[w])
    /\ t_snd[w] < RunMaxSent
    /\ \E failAt \in {0, tx_burst_size}, left \in 0..tx_burst_size :
          IF setup_pkt_array(tx_burst_size, failAt).ret # 0
          THEN /\ t_pc' = [t_pc EXCEPT ![w] = "exit"]
               /\ UNCHANGED <<t_snd, t_io>>
          ELSE /\ t_snd' = [t_snd EXCEPT ![w] = @ + SentDelta(tx_burst_size, left)]
               /\ t_io' = [t_io EXCEPT ![w] = TRUE]
               /\ UNCHANGED t_pc
    /\ UNCHANGED <<cfgVars, ioVars, curVars, argVars, rttVars, segVars, pktioVars, loopVars, sendVars, chkVars, recvVars, req_workers, num_workers,
                   timeout, payload, m_pc, m_next, barrier_size, barrier_cnt, timing, t_role,
                   t_res, t_stop, t_reply>>

\* lines 844-871: one iteration of the receive loop, with pkt an echo reply
\* or nothing that counts as one
WorkerRecv(w) ==
    /\ t_pc[w] = "top"
    /\ t_role[w] = "rx"
    /\ ~t_stop[w]
    /\ \E replies \in 0..1 :
          /\ t_reply[w] + replies <= RunMaxReply
          /\ t_reply' = [t_reply EXCEPT ![w] = @ + replies]
    /\ t_io' = [t_io EXCEPT ![w] = TRUE]
    /\ UNCHANGED <<cfgVars, ioVars, curVars, argVars, rttVars, segVars, pktioVars, loopVars, sendVars, chkVars, recvVars, req_workers, num_workers,
                   timeout, payload, m_pc, m_next, barrier_size, barrier_cnt, timing, t_pc,
                   t_role, t_res, t_stop, t_snd>>

MainStep ==
    \/ MainSetup
    \/ MainCreateWorker
    \/ MainBarrierArrive
    \/ MainBarrierPass
    \/ ReporterLoop
    \/ ReporterGrace
    \/ MainJoin

WorkerStep(w) ==
    \/ WorkerStart(w)
    \/ WorkerBarrierPass(w)
    \/ WorkerStop(w)
    \/ WorkerQuotaWait(w)
    \/ WorkerSend(w)
    \/ WorkerRecv(w)

NextRun == MainStep \/ \E w \in Workers : WorkerStep(w)

SpecRun == InitRun /\ [][NextRun]_vars

\* lines 697-718: an iteration of the send loop in which odp_pktout_send
\* accepts at least one packet
WorkerSendAccepted(w) == WorkerSend(w) /\ t_snd'[w] > t_snd[w]

\* every thread is scheduled again and again, and the I/O layer does not
\* reject every packet for ever
SpecRunFair ==
    /\ SpecRun
    /\ WF_vars(MainStep)
    /\ \A w \in Workers : WF_vars(WorkerStep(w))
    /\ \A w \in Workers : SF_vars(WorkerSendAccepted(w))

(***************************************************************************)
(* SpecLoop: the loop of one worker with nothing cut short: the stop flag  *)
(* is read at the top, a sender goes through quota check, burst setup, the *)
(* inner send loop (one action per odp_pktout_send call) and millisleep,   *)
(* a receiver polls once.  The counters are uint64_t; here they are kept   *)
(* modulo CtrRange, which keeps the state space finite without stopping    *)
(* any loop.                                                               *)
(***************************************************************************)
CtrAdd(c, d) == (c + d) % CtrRange

StopIgnored(flag) == FALSE

\* if (thr_args->stop) break
StopCheck(flag) == flag

DeqAlwaysReturns(st) == TRUE

\* odp_queue_deq(q) # ODP_EVENT_INVALID: the timeout event is in the queue
DeqGotEvent(st) == st = "queued"

LoopRole == IF mode = APPL_MODE_RCV THEN "rx" ELSE "tx"

LoopSendUnchanged ==
    UNCHANGED <<submits, frees, ids, last_id, iter>>

LoopRecvUnchanged ==
    UNCHANGED <<rx_pc, rx_stop, rx_events, rx_frees, rx_classified, rx_log,
                rx_prev, rx_iters>>

InitLoop ==
    /\ IdleIo
    /\ IdleCur
    /\ IdleArgs
    /\ IdleRtt
    /\ IdleSeg
    /\ mode \in {APPL_MODE_UDP, APPL_MODE_PING, APPL_MODE_RCV}
    /\ number \in {-1} \cup 1..MaxNumber
    /\ thread_cnt = IF mode = APPL_MODE_PING THEN 2 ELSE 1
    /\ \E x \in 1..MaxBurst : tx_burst_size = TxBurstSize(mode, x)
    /\ little_endian = TRUE
    /\ interval \in 0..MaxInterval
    /\ tmo_state = "free"
    /\ s_pc = "top"
    /\ stop = InitialStop
    /\ ctr_pkt_snd = 0
    /\ ctr_pkt_snd_drop = 0
    /\ ctr_seq = 0
    /\ burst_start = 0
    /\ burst_size = 0
    /\ pkt_ref_array = [k \in 1..tx_burst_size |-> "alloc"]
    /\ pkt_array = [k \in 1..tx_burst_size |-> "unset"]
    /\ submits = <<>>
    /\ frees = <<>>
    /\ ids = <<>>
    /\ last_id = -1
    /\ iter = NoIter
    /\ IdlePktio
    /\ IdleChk
    /\ IdleRecv
    /\ IdleRun

\* lines 680-681 and 840-841: the flag is read; a sender that leaves frees
\* its reference packets (line 734)
LoopCheckStop ==
    /\ s_pc = "top"
    /\ IF StopCheck(stop)
       THEN /\ s_pc' = "exit"
            /\ pkt_ref_array' = [k \in 1..tx_burst_size |-> "freed"]
       ELSE /\ s_pc' = IF LoopRole = "tx" THEN "quota" ELSE "poll"
            /\ UNCHANGED pkt_ref_array
    /\ LoopSendUnchanged
    /\ UNCHANGED <<cfgVars, ioVars, curVars, argVars, rttVars, segVars, pktioVars, loopVars, chkVars, recvVars, runVars, stop,
                   ctr_pkt_snd, ctr_pkt_snd_drop, ctr_seq, burst_start,
                   burst_size, pkt_array>>

\* lines 683-686: sleep(1); continue
LoopQuotaWait ==
    /\ s_pc = "quota"
    /\ QuotaReached(PktCountMax(mode, number, thread_cnt), ctr_pkt_snd)
    /\ s_pc' = "top"
    /\ LoopSendUnchanged
    /\ UNCHANGED <<cfgVars, ioVars, curVars, argVars, rttVars, segVars, pktioVars, loopVars, chkVars, recvVars, runVars, stop,
                   ctr_pkt_snd, ctr_pkt_snd_drop, ctr_seq, burst_start,
                   burst_size, pkt_ref_array, pkt_array>>

\* lines 688-698: the burst is refreshed and aliased; a failure is "break"
LoopSetup ==
    /\ s_pc = "quota"
    /\ ~QuotaReached(PktCountMax(mode, number, thread_cnt), ctr_pkt_snd)
    /\ \E failAt \in 0..tx_burst_size :
          LET r == setup_pkt_array(tx_burst_size, failAt)
          IN  /\ pkt_array' = r.arr
              /\ ctr_seq' = CtrAdd(ctr_seq, r.refreshed)
              /\ IF r.ret # 0
                 THEN /\ s_pc' = "exit"
                      /\ pkt_ref_array' = [k \in 1..tx_burst_size |-> "freed"]
                      /\ UNCHANGED <<burst_start, burst_size>>
                 ELSE /\ s_pc' = "send"
                      /\ burst_start' = 0
                      /\ burst_size' = tx_burst_size
                      /\ UNCHANGED pkt_ref_array
    /\ LoopSendUnchanged
    /\ UNCHANGED <<cfgVars, ioVars, curVars, argVars, rttVars, segVars, pktioVars, loopVars, chkVars, recvVars, runVars, stop,
                   ctr_pkt_snd, ctr_pkt_snd_drop>>

\* lines 699-718: one odp_pktout_send call; when the inner loop ends the
\* sent counter is raised, and with interval = 0 line 731 follows at once
LoopSend ==
    /\ s_pc = "send"
    /\ \E ret \in -1..burst_size :
          LET p == SendPass(burst_start, burst_size, ret)
          IN  /\ burst_start' = p.bstart
              /\ burst_size' = p.bsize
              /\ ctr_pkt_snd_drop' = CtrAdd(ctr_pkt_snd_drop, p.drop)
              /\ pkt_array' = [k \in 1..tx_burst_size |->
                                 IF k \in p.sent THEN "sent"
                                 ELSE IF k \in p.freed THEN "freed"
                                 ELSE pkt_array[k]]
              /\ IF p.again
                 THEN UNCHANGED <<s_pc, ctr_pkt_snd, ctr_seq>>
                 ELSE /\ ctr_pkt_snd' =
                            CtrAdd(ctr_pkt_snd, SentDelta(tx_burst_size, p.bsize))
                      /\ IF interval # 0
                         THEN s_pc' = "sleep" /\ UNCHANGED ctr_seq
                         ELSE /\ s_pc' = "top"
                              /\ ctr_seq' = CtrAdd(ctr_seq,
                                     SeqStep(mode, tx_burst_size, thread_cnt))
    /\ LoopSendUnchanged
    /\ UNCHANGED <<cfgVars, ioVars, curVars, argVars, rttVars, segVars, pktioVars, loopVars, chkVars, recvVars, runVars, stop,
                   pkt_ref_array>>

\* millisleep lines 164-169: odp_timer_set_rel arms the worker's timer with
\* its timeout event; any other return code is EXAMPLE_ABORT
LoopArm ==
    /\ s_pc = "sleep"
    /\ \E ok \in BOOLEAN :
          IF ok
          THEN s_pc' = "wait" /\ tmo_state' = "armed"
          ELSE s_pc' = "aborted" /\ UNCHANGED tmo_state
    /\ LoopSendUnchanged
    /\ UNCHANGED <<cfgVars, ioVars, curVars, argVars, rttVars, segVars, pktioVars, interval, chkVars, recvVars, runVars, stop,
                   ctr_pkt_snd, ctr_pkt_snd_drop, ctr_seq, burst_start,
                   burst_size, pkt_ref_array, pkt_array>>

\* the timer pool: the timer expires and its event goes to the queue tq
TimerExpire ==
    /\ tmo_state = "armed"
    /\ tmo_state' = "queued"
    /\ UNCHANGED <<cfgVars, ioVars, curVars, argVars, rttVars, segVars, pktioVars, interval, sendVars, chkVars, recvVars, runVars>>

\* millisleep lines 171-172 and line 731: one odp_queue_deq of the spin loop
LoopDeq ==
    /\ s_pc = "wait"
    /\ IF DeqGotEvent(tmo_state)
       THEN /\ s_pc' = "top"
            /\ tmo_state' = IF tmo_state = "queued" THEN "free" ELSE tmo_state
            /\ ctr_seq' = CtrAdd(ctr_seq, SeqStep(mode, tx_burst_size, thread_cnt))
       ELSE UNCHANGED <<s_pc, tmo_state, ctr_seq>>
    /\ LoopSendUnchanged
    /\ UNCHANGED <<cfgVars, ioVars, curVars, argVars, rttVars, segVars, pktioVars, interval, chkVars, recvVars, runVars, stop,
                   ctr_pkt_snd, ctr_pkt_snd_drop, burst_start, burst_size,
                   pkt_ref_array, pkt_array>>

\* lines 844-871: odp_schedule_multi with ODP_SCHED_NO_WAIT and what the
\* receiver does with the events
LoopRecv ==
    /\ s_pc = "poll"
    /\ \E n \in 0..1 : \E evs \in [1..n -> Packets] :
          LET d == PrintPkts(evs, KeptIndices(evs, 1), 1)
          IN  /\ ctr_pkt_rcv' = CtrAdd(ctr_pkt_rcv, d.rcv)
              /\ ctr_udp_rcv' = CtrAdd(ctr_udp_rcv, d.udp)
              /\ ctr_icmp_reply_rcv' = CtrAdd(ctr_icmp_reply_rcv, d.reply)
    /\ s_pc' = "top"
    /\ LoopRecvUnchanged
    /\ UNCHANGED <<cfgVars, ioVars, curVars, argVars, rttVars, segVars, pktioVars, loopVars, chkVars, runVars, stop, ctr_pkt_snd,
                   ctr_pkt_snd_drop, ctr_seq, burst_start, burst_size,
                   pkt_ref_array, pkt_array, submits, frees, ids, last_id, iter>>

\* print_global_stats lines 989-990
LoopReporterStop ==
    /\ ~stop
    /\ stop' = TRUE
    /\ UNCHANGED <<cfgVars, ioVars, curVars, argVars, rttVars, segVars, pktioVars, loopVars, chkVars, recvVars, runVars, s_pc,
                   ctr_pkt_snd, ctr_pkt_snd_drop, ctr_seq, burst_start,
                   burst_size, pkt_ref_array, pkt_array, submits, frees, ids,
                   last_id, iter>>

LoopWorkerStep ==
    \/ LoopCheckStop
    \/ LoopQuotaWait
    \/ LoopSetup
    \/ LoopSend
    \/ LoopArm
    \/ LoopDeq
    \/ LoopRecv

NextLoop == LoopWorkerStep \/ TimerExpire \/ LoopReporterStop

SpecLoop == InitLoop /\ [][NextLoop]_vars

\* the worker thread is scheduled again and again and an armed timer expires
SpecLoopFair ==
    /\ SpecLoop
    /\ WF_vars(LoopWorkerStep)
    /\ WF_vars(TimerExpire)

(***************************************************************************)
(* SpecAssign: main in UDP mode creates the interfaces (create_pktio) and  *)
(* then gives every send worker an output queue of one of them.            *)
(***************************************************************************)
\* lines 1139-1146: the output queues main asks for on every interface
NumTxQueues(m, nw, ifc) ==
    IF m \in {APPL_MODE_PING, APPL_MODE_RCV} THEN 1
    ELSE (nw \div ifc) + (IF nw % ifc # 0 THEN 1 ELSE 0)

\* create_pktio lines 582-601: itf->pktout_count
PktoutCount(num_tx_queues, capa) ==
    IF num_tx_queues > capa THEN capa ELSE num_tx_queues

\* lines 1254-1256
IfIdx(i, ifc) == i % ifc
PktoutIdx(i, ifc, count) == (i \div ifc) % count

InitAssign ==
    /\ IdleIo
    /\ IdleCur
    /\ IdleArgs
    /\ IdleRtt
    /\ IdleSeg
    /\ mode = APPL_MODE_UDP
    /\ number = -1
    /\ thread_cnt = 0
    /\ tx_burst_size = 0
    /\ little_endian = TRUE
    /\ asg_workers \in 1..AsgMaxWorkers
    /\ if_count \in 1..AsgMaxIfs
    /\ max_output_queues \in [1..if_count -> 1..AsgMaxQueues]
    /\ pktout_count = <<>>
    /\ tx_pktout = <<>>
    /\ IdleLoop
    /\ s_pc = "idle"
    /\ stop = FALSE
    /\ ctr_pkt_snd = 0
    /\ ctr_pkt_snd_drop = 0
    /\ ctr_seq = 0
    /\ burst_start = 0
    /\ burst_size = 0
    /\ pkt_ref_array = <<>>
    /\ pkt_array = <<>>
    /\ submits = <<>>
    /\ frees = <<>>
    /\ ids = <<>>
    /\ last_id = -1
    /\ iter = NoIter
    /\ IdleChk
    /\ IdleRecv
    /\ IdleRun

\* lines 1148-1154: the next interface is created
MainCreatePktio ==
    /\ Len(pktout_count) < if_count
    /\ pktout_count' = Append(pktout_count,
           PktoutCount(NumTxQueues(mode, asg_workers, if_count),
                       max_output_queues[Len(pktout_count) + 1]))
    /\ UNCHANGED <<cfgVars, ioVars, curVars, argVars, rttVars, segVars, loopVars, sendVars, chkVars, recvVars, runVars,
                   asg_workers, if_count, max_output_queues, tx_pktout>>

\* lines 1253-1263: the next worker gets thread[i].tx.pktout
MainAssignPktout ==
    /\ Len(pktout_count) = if_count
    /\ Len(tx_pktout) < asg_workers
    /\ LET i == Len(tx_pktout)
           if_idx == IfIdx(i, if_count)
       IN  tx_pktout' = Append(tx_pktout,
               <<if_idx, PktoutIdx(i, if_count, pktout_count[if_idx + 1])>>)
    /\ UNCHANGED <<cfgVars, ioVars, curVars, argVars, rttVars, segVars, loopVars, sendVars, chkVars, recvVars, runVars,
                   asg_workers, if_count, max_output_queues, pktout_count>>

NextAssign == MainCreatePktio \/ MainAssignPktout

SpecAssign == InitAssign /\ [][NextAssign]_vars

(***************************************************************************)
(* Claims about the send worker.                                           *)
(***************************************************************************)
FirstPartial ==
    /\ iter.calls >= 1
    /\ iter.first >= 0
    /\ iter.first < iter.size

\* C1: a burst of B packets of which the first odp_pktout_send accepts only
\* k < B raises send-dropped by exactly B - k and sent by exactly k in that
\* loop iteration, whatever the I/O layer returns afterwards.
C1_DropAndSentExact ==
    (iter.state = "done" /\ FirstPartial) =>
        /\ ctr_pkt_snd_drop - iter.drop0 = iter.size - iter.first
        /\ ctr_pkt_snd - iter.snd0 = iter.first

\* C2: after a partial acceptance the rejected packets are freed by the
\* worker and are never passed to odp_pktout_send again.
C2_NoRetry ==
    (iter.state \in {"sending", "done"} /\ FirstPartial) =>
        \A k \in iter.first + 1 .. iter.size :
            submits[k] = 1 /\ pkt_array[k] = "freed"

\* C6: the ids written by consecutive refreshes of one worker go up by one
\* modulo 65536, within a burst and from one burst to the next.
C6_SeqStepOne ==
    /\ \A k \in 2..Len(ids) : ids[k] = (ids[k - 1] + 1) % USHORT_RANGE
    /\ (Len(ids) > 0 /\ last_id # -1) => ids[1] = (last_id + 1) % USHORT_RANGE

\* C7: when setup_pkt_array fails at slot i, no alias made by that call
\* stays allocated.
C7_AliasRollback ==
    iter.state = "setup_failed" =>
        \A k \in 1..iter.size : pkt_array[k] # "held"

NumIn(arr, st) == Cardinality({k \in DOMAIN arr : arr[k] = st})

\* C8: when setup_pkt_ref_array fails at element i, the i packets allocated
\* before are all freed and none of the batch stays allocated; when it
\* succeeds, all tx_burst_size packets are allocated.
C8_RefArrayRollback ==
    /\ s_pc = "failed" =>
          /\ NumIn(pkt_ref_array, "alloc") = 0
          /\ NumIn(pkt_ref_array, "freed") = iter.failAt
    /\ s_pc \in {"top", "send"} =>
          NumIn(pkt_ref_array, "alloc") = tx_burst_size

C8_Witness ==
    /\ s_pc = "failed"
    /\ iter.failAt >= 2
    /\ NumIn(pkt_ref_array, "freed") = 2


(***************************************************************************)
(* Claims about the whole run.                                             *)
(***************************************************************************)
SumSent == CounterSum(t_snd, num_workers)

BoundedSendRun == mode # APPL_MODE_RCV /\ number # -1

AllStopped == \A w \in 0 .. num_workers - 1 : t_stop[w]

\* C3: in a bounded-count send-mode run whose workers have all been
\* created, the summed sent counter eventually reaches the count; once it
\* has, the reporter leaves its loop and the stop flag of every worker
\* becomes true; a stop flag that is true stays true.
C3_CountReachedThenStopped ==
    /\ (BoundedSendRun /\ m_pc = "barrier") ~> (SumSent >= number)
    /\ (BoundedSendRun /\ m_pc = "barrier") ~> AllStopped
    /\ [][\A w \in Workers : t_stop[w] => t_stop'[w]]_vars

AllThreadsEnded ==
    /\ m_pc \in {"done", "aborted"}
    /\ \A w \in Workers : t_pc[w] \in {"none", "exit", "failed", "killed"}

\* C4: once a send worker has failed to build its reference packets, the
\* run is on its way to its end: either every thread has terminated, or
\* some thread can still take a step; no thread is left waiting at the
\* barrier with nothing able to release it.
C4_SetupFailureEndsRun ==
    (\E w \in Workers : t_pc[w] = "failed") =>
        (AllThreadsEnded \/ ENABLED NextRun)

StartupComplete ==
    /\ \A w \in 0 .. num_workers - 1 : t_pc[w] # "none" /\ t_res[w]
    /\ m_next = num_workers
    /\ barrier_cnt = num_workers + 1

\* C5: no worker has sent or polled, and the reporter has not taken its
\* start time, before all num_workers workers exist with their resources
\* and all num_workers + 1 threads have arrived at the barrier.
C5_BarrierBeforeIo ==
    ((\E w \in Workers : t_io[w]) \/ timing) => StartupComplete

C5_Witness ==
    /\ num_workers = 2
    /\ timing
    /\ \A w \in Workers : t_io[w]

(***************************************************************************)
(* Claims about the shared state of the run.                               *)
(***************************************************************************)
Spawned == \E w \in Workers : t_pc[w] # "none"

Joined == m_pc \in {"done", "aborted", "exit_failure"}

\* C11: from the creation of the first worker until the workers have been
\* joined, no step of any thread changes a field of the run configuration
\* (mode, count, payload size, timeout).
C11_ConfigReadOnlyAfterSpawn ==
    [][(Spawned /\ ~Joined) => UNCHANGED <<mode, number, payload, timeout>>]_vars

\* C12: a stop flag is false until the reporter's loop has ended, changes
\* only in the reporter's step that ends the loop, and only from false to
\* true: no step of a worker changes it and it never returns to false.
C12_StopWrittenByReporterOnly ==
    /\ [](m_pc \notin {"join", "done"} => \A w \in Workers : ~t_stop[w])
    /\ [][\A w \in Workers :
            t_stop'[w] # t_stop[w] =>
                /\ ~t_stop[w] /\ t_stop'[w]
                /\ m_pc \in {"loop", "grace"} /\ m_pc' = "join"]_vars

C12_Witness ==
    /\ m_pc = "join"
    /\ num_workers = 2
    /\ t_stop[0] /\ t_stop[1]
    /\ \E w \in Workers : t_pc[w] = "top" /\ t_io[w]

\* C15: once any worker thread exists, every worker of the run has its
\* queue, timer and timeout event; an allocation failure (abort) therefore
\* finds no worker thread running.
C15_ResourcesBeforeFirstWorker ==
    /\ Spawned => \A w \in 0 .. num_workers - 1 : t_res[w]
    /\ m_pc = "aborted" => ~Spawned

\* C16: in UDP mode no two send workers are given the same output queue
\* of the same interface.
C16_PktoutOwnedOneToOne ==
    \A i, j \in 1..Len(tx_pktout) : i # j => tx_pktout[i] # tx_pktout[j]

TotalFailure ==
    /\ iter.state = "done"
    /\ iter.calls = 1
    /\ iter.first < 0

\* C19: when the first odp_pktout_send of a burst returns a negative value,
\* every alias of the burst has been freed once and none was sent, the sent
\* counter is what it was before the iteration, and the worker is back at
\* the top of its loop (it leaves only when told to stop).
C19_TotalFailureFreesBurst ==
    TotalFailure =>
        /\ \A k \in 1..iter.size : pkt_array[k] = "freed" /\ frees[k] = 1
        /\ ctr_pkt_snd = iter.snd0
        /\ s_pc \in {"top", "exit"}
        /\ s_pc = "exit" => stop

C19_Witness ==
    /\ TotalFailure
    /\ iter.size >= 2
    /\ s_pc = "top"
    /\ ~stop

\* the same packet with a good L3 and L4 checksum status
GoodChecksum(pkt) == [pkt EXCEPT !.l3bad = FALSE, !.l4bad = FALSE]

BadChecksumOnly(pkt) == ~pkt.err /\ (pkt.l3bad \/ pkt.l4bad)

\* the last burst with every checksum status good
GoodEvents == [k \in DOMAIN rx_events |-> GoodChecksum(rx_events[k])]

\* C20: a packet with a bad L3 or L4 checksum status and no error flag is
\* given to print_pkts and freed once, is classified as the same packet
\* with good status is, and the burst moves the three receive counters by
\* what the same burst with good status everywhere moves them.
C20_BadChecksumNotDropped ==
    /\ \A k \in DOMAIN rx_events :
          BadChecksumOnly(rx_events[k]) =>
              /\ rx_classified[k]
              /\ rx_frees[k] = 1
              /\ rx_log[k] = PrintPkt(GoodChecksum(rx_events[k])).msg
    /\ LET d == PrintPkts(GoodEvents, KeptIndices(GoodEvents, 1), 1)
       IN  <<ctr_pkt_rcv, ctr_udp_rcv, ctr_icmp_reply_rcv>> =
               <<rx_prev[1] + d.rcv, rx_prev[2] + d.udp, rx_prev[3] + d.reply>>

\* a burst of a UDP packet with bad L4 status and an echo reply with bad L3
\* status
C20_Witness ==
    /\ Len(rx_events) = 2
    /\ BadChecksumOnly(rx_events[1])
    /\ rx_events[1].l4bad /\ rx_events[1].proto = ODPH_IPPROTO_UDP
    /\ BadChecksumOnly(rx_events[2])
    /\ rx_events[2].l3bad /\ rx_events[2].proto = ODPH_IPPROTO_ICMPV4
    /\ ctr_pkt_rcv = 2 /\ ctr_udp_rcv = 1 /\ ctr_icmp_reply_rcv = 1

(***************************************************************************)
(* Claims about the loop of one worker.                                    *)
(***************************************************************************)
LoopLeft == s_pc \in {"exit", "aborted"}

\* C13: a worker that is at the top of its loop with its stop flag set
\* begins no further iteration, and once the flag is set the worker
\* eventually leaves its loop, sender and receiver alike.
C13_StopEndsWorker ==
    /\ [][(stop /\ s_pc = "top") => s_pc' \in {"top", "exit"}]_vars
    /\ stop ~> LoopLeft

\* C14: whatever odp_pktout_send returns, the inner send loop of an
\* iteration ends: a worker in it eventually is out of it.
C14_SendLoopEnds == (s_pc = "send") ~> (s_pc # "send")

\* C17: a worker's timeout is outstanding (armed or in its queue) only
\* while the worker is inside millisleep waiting for it, and the timer is
\* armed only by a millisleep call that finds the timeout free: a second
\* arming never overlaps a wait.
C17_OneTimeoutOutstanding ==
    /\ [](tmo_state # "free" => s_pc = "wait")
    /\ [][(tmo_state' = "armed" /\ tmo_state # "armed") =>
             (tmo_state = "free" /\ s_pc = "sleep")]_vars

C17_Witness ==
    /\ tx_burst_size = 1
    /\ ctr_pkt_snd = 2
    /\ s_pc = "wait"
    /\ tmo_state = "queued"

(***************************************************************************)
(* SpecWorkers: a run of the send worker of SpecSend or of the receive     *)
(* worker of SpecRecv, each with the reporter's stop.                      *)
(***************************************************************************)
InitWorkers == InitSend \/ InitRecv

NextWorkers == NextSend \/ NextRecv

SpecWorkers == InitWorkers /\ [][NextWorkers]_vars

SendCounters == <<ctr_pkt_snd, ctr_pkt_snd_drop, ctr_seq>>

RecvCounters == <<ctr_pkt_rcv, ctr_udp_rcv, ctr_icmp_reply_rcv>>

RttSends == {0, 1, 999999, 1000000000}
RttUsecs == {0, 1, 250, 999}
RttNsecs == {0, 999}

RttUsNotReduced(ts, tr) == (tr - ts) \div ODP_TIME_USEC_IN_NS

\* line 761
rtt_ms(ts, tr) == (tr - ts) \div ODP_TIME_MSEC_IN_NS

\* lines 762-763
rtt_us(ts, tr) == (tr - ts) \div ODP_TIME_USEC_IN_NS - 1000 * rtt_ms(ts, tr)

\* "%.03" PRIu64: at least three digits, padded with zeros on the left
Fmt03(n) ==
    IF n < 10 THEN "00" \o ToString(n)
    ELSE IF n < 100 THEN "0" \o ToString(n)
    ELSE ToString(n)

\* lines 764-768: "time %" PRIu64 ".%.03" PRIu64 " ms"
RttText(ms, us) == ToString(ms) \o "." \o Fmt03(us) \o " ms"

InitRtt ==
    /\ IdleIo
    /\ IdleCur
    /\ IdleArgs
    /\ IdleSeg
    /\ IdleLoop
    /\ IdlePktio
    /\ IdleSend
    /\ IdleRecv
    /\ IdleRun
    /\ IdleChk
    /\ little_endian = TRUE
    /\ rtt_pc = "ready"
    /\ tsend \in RttSends
    /\ \E ms \in 0..MaxRttMs, us \in RttUsecs, ns \in RttNsecs :
          trecv = tsend + ms * ODP_TIME_MSEC_IN_NS + us * ODP_TIME_USEC_IN_NS + ns
    /\ rtt = <<0, 0>>
    /\ msg = ""

\* lines 755-768
ProcessEchoReply ==
    /\ rtt_pc = "ready"
    /\ rtt_pc' = "done"
    /\ rtt' = <<rtt_ms(tsend, trecv), rtt_us(tsend, trecv)>>
    /\ msg' = RttText(rtt'[1], rtt'[2])
    /\ UNCHANGED <<cfgVars, ioVars, curVars, argVars, segVars, pktioVars, loopVars, sendVars, chkVars,
                   recvVars, runVars, tsend, trecv>>

NextRtt == ProcessEchoReply

SpecRtt == InitRtt /\ [][NextRtt]_vars

\* C22: for an echo reply received R - T nanoseconds after its request was
\* sent, the milliseconds reported are floor((R - T) / 10^6), the fraction
\* is floor((R - T) / 10^3) - 1000 * milliseconds and lies in 0..999, and
\* 5,250,000 ns is printed as "5.250 ms".
C22_RttSplit ==
    rtt_pc = "done" =>
        LET d == trecv - tsend
        IN  /\ rtt[1] * 1000000 <= d /\ d < (rtt[1] + 1) * 1000000
            /\ rtt[2] \in 0..999
            /\ \E rem \in 0..999 : d = rtt[1] * 1000000 + rtt[2] * 1000 + rem
            /\ (d = 5250000 => msg = "5.250 ms")

C22_Witness ==
    /\ rtt_pc = "done"
    /\ trecv - tsend = 5250000
    /\ tsend > 0
    /\ msg = "5.250 ms"

(***************************************************************************)
(* SpecArgs: parse_args and the head of main, up to the creation of the    *)
(* workers.  The command line is the set of mandatory options it holds,    *)
(* the ones among them whose argument does not parse, the letter given to  *)
(* -m, the value given to -x (the default when -x is absent) and the       *)
(* worker count given to -w (0 when absent).                               *)
(***************************************************************************)
Mandatory == {"I", "a", "b", "s", "d", "m"}

ModeLetters == {"u", "p", "r"}

BurstArgs == {-1, 1, DEFAULT_UDP_TX_BURST, MAX_UDP_TX_BURST, MAX_UDP_TX_BURST + 1}

\* memset(args, 0, sizeof(*args))
ApplZero == [if_count |-> 0, udp_tx_burst |-> 0, num_workers |-> 0,
             srcmac |-> "zero", dstmac |-> "zero", srcip |-> "zero",
             dstip |-> "zero"]

BurstAlwaysAccepted(x) == TRUE

\* case 'x': a burst size above the maximum ends the run
BurstAccepted(x) == ~(x > MAX_UDP_TX_BURST)

\* case 'm'
ModeOf(letter) ==
    IF letter = "u" THEN APPL_MODE_UDP
    ELSE IF letter = "p" THEN APPL_MODE_PING
    ELSE APPL_MODE_RCV

\* the value an address field holds after the options are read
Parsed(cl, opt) == IF opt \in cl.opts THEN "set" ELSE "zero"

\* parse_args ends in exit(EXIT_FAILURE)
ParseFails(cl) ==
    \/ cl.bad # {}
    \/ ~BurstAccepted(cl.x)
    \/ "I" \notin cl.opts
    \/ "m" \notin cl.opts

\* odp_cpumask_default_worker(&cpumask, num): the CPUs it gives
DefaultWorker(cpus, num) == IF num = 0 THEN cpus ELSE Min(num, cpus)

\* lines 1047-1058, for -w or the default
AskedWorkers(cpus, w) ==
    IF w # 0 THEN DefaultWorker(cpus, w) ELSE DefaultWorker(cpus, MAX_WORKERS)

InitArgs ==
    /\ IdleIo
    /\ IdleCur
    /\ IdleRtt
    /\ IdleSeg
    /\ IdleLoop
    /\ IdlePktio
    /\ IdleRecv
    /\ IdleRun
    /\ IdleChk
    /\ mode = 0
    /\ number = 0
    /\ thread_cnt = 0
    /\ tx_burst_size = 0
    /\ little_endian = TRUE
    /\ s_pc = "idle"
    /\ stop = FALSE
    /\ ctr_pkt_snd = 0
    /\ ctr_pkt_snd_drop = 0
    /\ ctr_seq = 0
    /\ burst_start = 0
    /\ burst_size = 0
    /\ pkt_ref_array = <<>>
    /\ pkt_array = <<>>
    /\ submits = <<>>
    /\ frees = <<>>
    /\ ids = <<>>
    /\ last_id = -1
    /\ iter = NoIter
    /\ a_pc = "parse"
    /\ \E opts \in SUBSET Mandatory :
          \E bad \in SUBSET opts, m \in ModeLetters, x \in BurstArgs,
             w \in 0..ArgMaxWorkers :
                argv = [opts |-> opts, bad |-> bad, m |-> m, x |-> x, w |-> w]
    /\ cpu_count \in 1..ArgMaxCpus
    /\ appl = ApplZero

\* lines 1037-1040: parse_args
ParseArgs ==
    /\ a_pc = "parse"
    /\ IF ParseFails(argv)
       THEN /\ a_pc' = "exit_failure"
            /\ mode' = -1
            /\ UNCHANGED appl
       ELSE /\ a_pc' = "parsed"
            /\ mode' = ModeOf(argv.m)
            /\ appl' = [if_count |-> 1, udp_tx_burst |-> argv.x,
                        num_workers |-> argv.w,
                        srcmac |-> Parsed(argv, "a"),
                        dstmac |-> Parsed(argv, "b"),
                        srcip |-> Parsed(argv, "s"),
                        dstip |-> Parsed(argv, "d")]
    /\ number' = -1
    /\ UNCHANGED <<thread_cnt, tx_burst_size, little_endian, argv, cpu_count,
                   rttVars, ioVars, curVars, segVars, pktioVars, loopVars, sendVars, chkVars, recvVars,
                   runVars>>

\* lines 1045-1084: the worker count and the burst size
ArgsMainSetup ==
    /\ a_pc = "parsed"
    /\ LET n == ResolveWorkers(mode, AskedWorkers(cpu_count, appl.num_workers))
       IN  IF n = 0
           THEN /\ a_pc' = "exit_failure"
                /\ UNCHANGED <<thread_cnt, tx_burst_size>>
           ELSE /\ a_pc' = "create"
                /\ thread_cnt' = n
                /\ tx_burst_size' = TxBurstSize(mode, appl.udp_tx_burst)
    /\ UNCHANGED <<mode, number, little_endian, argv, cpu_count, appl,
                   rttVars, ioVars, curVars, segVars, pktioVars, loopVars, sendVars, chkVars, recvVars,
                   runVars>>

\* lines 1086-1307: pool, timer pool and interfaces, then the workers; a
\* failure on the way ends the run
ArgsCreate ==
    /\ a_pc = "create"
    /\ \E ok \in BOOLEAN :
          a_pc' = IF ok THEN "running" ELSE "exit_failure"
    /\ UNCHANGED <<cfgVars, ioVars, curVars, argv, cpu_count, appl, rttVars, segVars, pktioVars, loopVars,
                   sendVars, chkVars, recvVars, runVars>>

NextArgs == ParseArgs \/ ArgsMainSetup \/ ArgsCreate

SpecArgs == InitArgs /\ [][NextArgs]_vars

WorkersMayStart == a_pc \in {"create", "running"}

\* C26: the burst size the workers use never exceeds MAX_UDP_TX_BURST, and
\* a command line asking for more ends before main gets to its workers.
C26_BurstWithinMax ==
    /\ tx_burst_size <= MAX_UDP_TX_BURST
    /\ argv.x > MAX_UDP_TX_BURST => a_pc \in {"parse", "exit_failure"}

C26_Witness ==
    /\ a_pc = "running"
    /\ mode = APPL_MODE_UDP
    /\ tx_burst_size = MAX_UDP_TX_BURST

\* C27: a command line that lacks a mandatory option, or gives one an
\* argument that does not parse, never gets as far as creating workers.
C27_MandatoryOrExit ==
    (Mandatory \ argv.opts # {} \/ argv.bad # {}) => ~WorkersMayStart

(***************************************************************************)
(* SpecFin: chksum_finalize applied to one accumulator.  The accumulator   *)
(* is any uint64_t, given as its four 16 bit words, lowest first.          *)
(***************************************************************************)
FinLimbs == {0, 1, LIMB - 2, LIMB - 1}

InitFin ==
    /\ IdleIo
    /\ IdleCur
    /\ IdleArgs
    /\ IdleRtt
    /\ IdleSeg
    /\ IdleLoop
    /\ IdlePktio
    /\ IdleSend
    /\ IdleRecv
    /\ IdleRun
    /\ little_endian = TRUE
    /\ chk_pc = "summed"
    /\ chk_buf = <<>>
    /\ chk_addr = 0
    /\ chk_offset = 0
    /\ chk_unaligned = FALSE
    /\ chk_sum \in {<<w0, w1, w2, w3>> : w0 \in FinLimbs, w1 \in FinLimbs,
                                         w2 \in FinLimbs, w3 \in FinLimbs}
    /\ chk_res = 0

FinCompute ==
    /\ chk_pc = "summed"
    /\ chk_pc' = "done"
    /\ chk_res' = chksum_finalize(chk_sum)
    /\ UNCHANGED <<cfgVars, ioVars, curVars, argVars, rttVars, segVars, pktioVars, loopVars,
                   sendVars, recvVars, runVars, chk_buf, chk_addr, chk_offset,
                   chk_unaligned, chk_sum>>

NextFin == FinCompute

SpecFin == InitFin /\ [][NextFin]_vars

\* C28: chksum_finalize of an accumulator is the end-around-carry sum of
\* its four 16 bit words: congruent to the accumulator modulo 65535, and 0
\* only for the accumulator 0.
C28_FinalizeIsOnesComplementSum ==
    chk_pc = "done" =>
        LET words == chk_sum[1] + chk_sum[2] + chk_sum[3] + chk_sum[4]
        IN  /\ chk_res = EndAroundFold(words)
            /\ chk_res % (LIMB - 1) = words % (LIMB - 1)
            /\ chk_res = 0 => chk_sum = Acc0

(***************************************************************************)
(* SpecSeg: the checksum of a buffer summed as two segments, the second    *)
(* following the first in memory: chksum_partial of each with the offset   *)
(* of its first byte, the two sums added, chksum_finalize of the total.    *)
(* The buffers are the short patterns of SpecChk and one long buffer:      *)
(* LIMB + 1 dwords 0xffffffff followed by the bytes 00 00 01 00.           *)
(***************************************************************************)
LongBuf == [runs |-> <<Run(<<255>>, 4 * (LIMB + 1)), Run(<<0, 0, 1, 0>>, 1)>>,
            from |-> 0, len |-> 4 * (LIMB + 1) + 4]

LongSplits == {0, 2, 5}

InitSeg ==
    /\ IdleIo
    /\ IdleCur
    /\ IdleArgs
    /\ IdleRtt
    /\ IdleLoop
    /\ IdlePktio
    /\ IdleSend
    /\ IdleRecv
    /\ IdleRun
    /\ IdleChk
    /\ seg_pc = "ready"
    /\ \/ /\ \E len \in 0..SegMaxLen, base \in ChkBases, stride \in ChkStrides :
                /\ seg_buf = Flat(Pattern(len, base, stride))
                /\ seg_split \in 0..len
          /\ little_endian \in BOOLEAN
          /\ seg_addr \in 0..3
          /\ seg_offset \in ChkOffsets
          /\ seg_unaligned \in BOOLEAN
       \/ /\ seg_buf = LongBuf
          /\ seg_split \in LongSplits
          /\ little_endian = TRUE
          /\ seg_addr = 0
          /\ seg_offset \in {0, 1}
          /\ seg_unaligned = TRUE
    /\ seg_sum = Acc0
    /\ seg_res = 0

SegCompute ==
    /\ seg_pc = "ready"
    /\ seg_pc' = "done"
    /\ LET first == Slice(seg_buf, 0, seg_split)
           second == Slice(seg_buf, seg_split, BufLen(seg_buf) - seg_split)
       IN  seg_sum' = AccPlus(chksum_partial(little_endian, seg_unaligned, first,
                                             seg_addr, seg_offset),
                              chksum_partial(little_endian, seg_unaligned, second,
                                             seg_addr + seg_split,
                                             seg_offset + seg_split))
    /\ seg_res' = chksum_finalize(seg_sum')
    /\ UNCHANGED <<cfgVars, ioVars, curVars, argVars, rttVars, pktioVars, loopVars, sendVars,
                   chkVars, recvVars, runVars, seg_buf, seg_split, seg_addr,
                   seg_offset, seg_unaligned>>

NextSeg == SegCompute

SpecSeg == InitSeg /\ [][NextSeg]_vars

WholeSum(offset) ==
    chksum_partial(little_endian, seg_unaligned, seg_buf, seg_addr, offset)

\* the end-around-carry sum of the n bytes after the first pos bytes of
\* buf, the byte at an even distance from the start of the header being
\* the high byte of its word
RECURSIVE RefFold(_, _, _, _)
RefFold(buf, pos, n, parity) ==
    IF n = 0 THEN 0
    ELSE IF n = 1
         THEN IF (parity + pos) % 2 = 0 THEN ByteAt(buf, pos + 1) * 256
              ELSE ByteAt(buf, pos + 1)
         ELSE LET h == n \div 2
              IN  EndAroundFold(RefFold(buf, pos, h, parity)
                                + RefFold(buf, pos + h, n - h, parity))

\* C9: for a buffer summed in one piece, long or short, the complement of
\* chksum_finalize(chksum_partial(...)), as it lies in memory, is the
\* byte-by-byte RFC 1071 checksum of the bytes at that offset parity.
C9_AnyLengthMatchesReference ==
    (seg_pc = "done" /\ seg_split = 0) =>
        WireU16(StoreU16(little_endian, Not16(seg_res)))
            = Not16(RefFold(seg_buf, 0, BufLen(seg_buf), seg_offset % 2))

\* C29: the checksum finalized from the sum of the partial sums of two
\* adjacent segments is the checksum finalized from the partial sum of the
\* whole buffer.
C29_PartialSumsCompose ==
    seg_pc = "done" => seg_res = chksum_finalize(WholeSum(seg_offset))

\* C30: chksum_partial gives the same accumulator for an offset and for its
\* parity, and the checksum finalized at an odd offset is the checksum
\* finalized at an even offset with its two bytes swapped.
C30_OddOffsetSwapsBytes ==
    seg_pc = "done" =>
        /\ WholeSum(seg_offset) = WholeSum(seg_offset % 2)
        /\ chksum_finalize(WholeSum(1)) = Bswap16(chksum_finalize(WholeSum(0)))

(***************************************************************************)
(* SpecCursor: the sequence cursors of the send workers of a UDP run.  main *)
(* gives thread i the start value i * tx_burst_size; every refresh of      *)
(* setup_pkt_array reads the cursor and adds one, and a completed          *)
(* iteration adds seq_step.                                                *)
(***************************************************************************)
CurWorkers == 0 .. cur_workers - 1

StartSeqSame(i, burst) == 0

\* start_seq = i * args->tx_burst_size
StartSeq(i, burst) == i * burst

InitCursor ==
    /\ IdleIo
    /\ IdleArgs
    /\ IdleRtt
    /\ IdleSeg
    /\ IdleLoop
    /\ IdlePktio
    /\ s_pc = "idle"
    /\ stop = FALSE
    /\ ctr_pkt_snd = 0
    /\ ctr_pkt_snd_drop = 0
    /\ ctr_seq = 0
    /\ burst_start = 0
    /\ burst_size = 0
    /\ pkt_ref_array = <<>>
    /\ pkt_array = <<>>
    /\ submits = <<>>
    /\ frees = <<>>
    /\ ids = <<>>
    /\ last_id = -1
    /\ iter = NoIter
    /\ IdleRecv
    /\ IdleRun
    /\ IdleChk
    /\ mode = APPL_MODE_UDP
    /\ number = -1
    /\ little_endian = TRUE
    /\ cur_workers \in 1..CurMaxWorkers
    /\ thread_cnt = cur_workers
    /\ \E x \in 1..CurMaxBurst : tx_burst_size = TxBurstSize(mode, x)
    /\ cur_pc = [w \in CurWorkers |-> "top"]
    /\ cur_seq = [w \in CurWorkers |-> StartSeq(w, tx_burst_size)]
    /\ cur_bursts = [w \in CurWorkers |-> <<>>]

\* lines 688-731: one iteration of the send loop of worker w; the alias of
\* slot failAt cannot be made and the worker leaves the loop, or the burst
\* is built and, whatever odp_pktout_send does with it, seq_step is added
CursorBurst(w) ==
    /\ cur_pc[w] = "top"
    /\ Len(cur_bursts[w]) < CurMaxBursts
    /\ \E failAt \in 0..tx_burst_size :
          LET r == setup_pkt_array(tx_burst_size, failAt)
          IN  /\ cur_bursts' = [cur_bursts EXCEPT ![w] =
                      Append(@, cur_seq[w] .. cur_seq[w] + r.refreshed - 1)]
              /\ IF r.ret # 0
                 THEN /\ cur_pc' = [cur_pc EXCEPT ![w] = "exit"]
                      /\ cur_seq' = [cur_seq EXCEPT ![w] = @ + r.refreshed]
                 ELSE /\ cur_seq' = [cur_seq EXCEPT ![w] = @ + r.refreshed
                              + SeqStep(mode, tx_burst_size, thread_cnt)]
                      /\ UNCHANGED cur_pc
    /\ UNCHANGED <<cfgVars, ioVars, argVars, rttVars, segVars, pktioVars, loopVars,
                   sendVars, chkVars, recvVars, runVars, cur_workers>>

\* lines 680-681: the worker sees its stop flag
CursorStop(w) ==
    /\ cur_pc[w] = "top"
    /\ cur_pc' = [cur_pc EXCEPT ![w] = "exit"]
    /\ UNCHANGED <<cfgVars, ioVars, argVars, rttVars, segVars, pktioVars, loopVars,
                   sendVars, chkVars, recvVars, runVars, cur_workers, cur_seq,
                   cur_bursts>>

NextCursor == \E w \in CurWorkers : CursorBurst(w) \/ CursorStop(w)

SpecCursor == InitCursor /\ [][NextCursor]_vars

\* the first cursor value of burst k (counted from 0) of worker w
BurstBase(w, k) == (k * cur_workers + w) * tx_burst_size

\* C34: in UDP mode with W workers and burst size B, the k-th burst of
\* worker i refreshes with the cursor values (k*W + i)*B .. (k*W + i)*B + B-1
\* (a burst that setup_pkt_array gives up uses the first of them), and no
\* cursor value is used by two workers.
C34_CursorRangesDisjoint ==
    /\ \A w \in CurWorkers : \A k \in 1..Len(cur_bursts[w]) :
          LET used == cur_bursts[w][k]
              n == Cardinality(used)
          IN  /\ used = BurstBase(w, k - 1) .. BurstBase(w, k - 1) + n - 1
              /\ n <= tx_burst_size
              /\ n < tx_burst_size => cur_pc[w] = "exit" /\ k = Len(cur_bursts[w])
    /\ \A w1, w2 \in CurWorkers : w1 # w2 =>
          \A k1 \in 1..Len(cur_bursts[w1]), k2 \in 1..Len(cur_bursts[w2]) :
              cur_bursts[w1][k1] \cap cur_bursts[w2][k2] = {}

\* two workers with bursts of more than one packet have both built two
\* bursts
C34_Witness ==
    /\ cur_workers >= 2
    /\ tx_burst_size >= 2
    /\ \A w \in CurWorkers :
          /\ Len(cur_bursts[w]) = 2
          /\ Cardinality(cur_bursts[w][2]) = tx_burst_size

(***************************************************************************)
(* SpecIo: one send worker and the transmit side of its interface.  The    *)
(* worker refreshes its reference packets and submits aliases of them; the *)
(* interface stores what it accepted and transmits it later, on its own.   *)
(***************************************************************************)
\* odp_packet_ref_static, a zero-copy alias: the alias has no bytes of its
\* own, a reader of the alias sees the bytes of the reference packet
AliasBytes(ref, slot) == ref[slot]

InitIo ==
    /\ IdleCur
    /\ IdleArgs
    /\ IdleRtt
    /\ IdleSeg
    /\ IdleLoop
    /\ IdlePktio
    /\ IdleRecv
    /\ IdleRun
    /\ IdleChk
    /\ mode \in {APPL_MODE_UDP, APPL_MODE_PING}
    /\ number = -1
    /\ thread_cnt = IF mode = APPL_MODE_PING THEN 2 ELSE 1
    /\ \E x \in 1..IoMaxBurst : tx_burst_size = TxBurstSize(mode, x)
    /\ little_endian = TRUE
    /\ s_pc = "idle"
    /\ stop = FALSE
    /\ ctr_pkt_snd = 0
    /\ ctr_pkt_snd_drop = 0
    /\ ctr_seq = 0
    /\ burst_start = 0
    /\ burst_size = 0
    /\ pkt_ref_array = <<>>
    /\ pkt_array = <<>>
    /\ submits = <<>>
    /\ frees = <<>>
    /\ ids = <<>>
    /\ last_id = -1
    /\ iter = NoIter
    /\ io_pc = "top"
    /\ io_iters = 0
    /\ io_seq = 0
    /\ io_ref = [k \in 1..tx_burst_size |-> -1]
    /\ io_stored = <<>>
    /\ io_wire = <<>>

\* lines 688-731: one iteration of the send loop.  setup_pkt_array writes
\* the next ids into the reference packets, whatever became of the aliases
\* made of them before; the alias of slot failAt cannot be made and the
\* worker leaves the loop, or the interface accepts the first `accepted`
\* aliases of the burst and the worker frees the others
IoIteration ==
    /\ io_pc = "top"
    /\ io_iters < IoMaxIters
    /\ \E failAt \in 0..tx_burst_size, accepted \in 0..tx_burst_size :
          LET r == setup_pkt_array(tx_burst_size, failAt)
              ref == [k \in 1..tx_burst_size |->
                        IF k <= r.refreshed
                        THEN WireU16(setup_pkt(mode, little_endian, io_seq + k - 1))
                        ELSE io_ref[k]]
          IN  /\ io_ref' = ref
              /\ IF r.ret # 0
                 THEN /\ io_pc' = "exit"
                      /\ io_seq' = io_seq + r.refreshed
                      /\ UNCHANGED io_stored
                 ELSE /\ io_stored' = io_stored \o
                          [k \in 1..accepted |-> [slot |-> k, id |-> ref[k]]]
                      /\ io_seq' = io_seq + r.refreshed
                                      + SeqStep(mode, tx_burst_size, thread_cnt)
                      /\ UNCHANGED io_pc
    /\ io_iters' = io_iters + 1
    /\ UNCHANGED <<cfgVars, curVars, argVars, rttVars, segVars, pktioVars,
                   loopVars, sendVars, chkVars, recvVars, runVars, io_wire>>

\* lines 680-681: the worker sees its stop flag
IoStop ==
    /\ io_pc = "top"
    /\ io_pc' = "exit"
    /\ UNCHANGED <<cfgVars, curVars, argVars, rttVars, segVars, pktioVars,
                   loopVars, sendVars, chkVars, recvVars, runVars, io_iters,
                   io_seq, io_ref, io_stored, io_wire>>

\* the interface transmits the oldest packet it has stored for transmit:
\* what goes out is what the alias shows at that moment
IoTransmit ==
    /\ io_stored # <<>>
    /\ io_wire' = Append(io_wire,
                         [id |-> Head(io_stored).id,
                          sent |-> AliasBytes(io_ref, Head(io_stored).slot)])
    /\ io_stored' = Tail(io_stored)
    /\ UNCHANGED <<cfgVars, curVars, argVars, rttVars, segVars, pktioVars,
                   loopVars, sendVars, chkVars, recvVars, runVars, io_pc,
                   io_iters, io_seq, io_ref>>

NextIo == IoIteration \/ IoStop \/ IoTransmit

SpecIo == InitIo /\ [][NextIo]_vars

\* C37: a packet handed to the I/O layer keeps its contents until it is
\* transmitted: while an alias that the interface accepted is still stored
\* for transmit, the reference packet behind it is not rewritten, and every
\* packet goes out with the id it had when it was submitted.
C37_SubmittedPacketUnchanged ==
    /\ \A j \in DOMAIN io_stored :
          AliasBytes(io_ref, io_stored[j].slot) = io_stored[j].id
    /\ \A j \in DOMAIN io_wire : io_wire[j].sent = io_wire[j].id

(***************************************************************************)
(* Claims about the aliases and the counters of one send-loop iteration.   *)
(***************************************************************************)
IterationEnded == s_pc = "top" /\ iter.state = "done"

\* C31: every alias of a burst that setup_pkt_array built in full is, when
\* the iteration ends, either accepted by odp_pktout_send or freed by the
\* worker exactly once, never both; none is still held when the worker is
\* back at the top of the loop, and no alias is ever freed twice or freed
\* after it was accepted.
C31_AliasConsumedInIteration ==
    iter.state \in {"sending", "done"} =>
        /\ \A k \in 1..tx_burst_size :
              /\ frees[k] <= 1
              /\ pkt_array[k] = "sent" => frees[k] = 0
              /\ pkt_array[k] = "freed" <=> frees[k] = 1
        /\ IterationEnded =>
              \A k \in 1..tx_burst_size : pkt_array[k] \in {"sent", "freed"}

\* an iteration has ended with one alias accepted and another freed
C31_Witness ==
    /\ IterationEnded
    /\ \E k \in 1..tx_burst_size : pkt_array[k] = "sent" /\ frees[k] = 0
    /\ \E k \in 1..tx_burst_size : pkt_array[k] = "freed" /\ frees[k] = 1

\* C33: when an iteration of the send loop has ended, by full acceptance or
\* by a negative result, the sent counter has grown by exactly the sum of
\* the non-negative results of the odp_pktout_send calls of that iteration,
\* which is the number of aliases the I/O layer took; an iteration that
\* ends in setup_pkt_array leaves the counter as it was.
C33_SentGrowsByAccepted ==
    /\ iter.state = "done" =>
          /\ ctr_pkt_snd - iter.snd0 = iter.accepted
          /\ iter.accepted = NumIn(pkt_array, "sent")
    /\ iter.state \in {"sending", "setup_failed"} => ctr_pkt_snd = iter.snd0

\* an iteration of three calls: one packet accepted, one more accepted, then
\* a negative result for the rest
C33_Witness ==
    /\ IterationEnded
    /\ iter.calls = 3
    /\ iter.accepted = 2
    /\ burst_size = 1
    /\ ctr_pkt_snd - iter.snd0 = 2

(***************************************************************************)
(* Claims about the events of one iteration of the receive loop.           *)
(***************************************************************************)
\* C32: every event of one odp_schedule_multi call is released exactly once
\* in that iteration: an errored packet by odp_packet_free before print_pkts
\* sees anything, every other packet after it went through print_pkts with
\* the rest of pkts[]; a packet that is not IPv4 is released that way too
\* and is only skipped, not counted.
C32_EventReleasedOnce ==
    /\ \A k \in DOMAIN rx_events :
          /\ rx_frees[k] = 1
          /\ rx_events[k].err <=> ~rx_classified[k]
          /\ rx_events[k].err <=> rx_log[k] = "dropped"
          /\ (~rx_events[k].err /\ ~rx_events[k].ipv4) => rx_log[k] = "skipped"
    /\ DOMAIN rx_frees = DOMAIN rx_events
    /\ (\A k \in DOMAIN rx_events : ~rx_events[k].ipv4)
          => <<ctr_pkt_rcv, ctr_udp_rcv, ctr_icmp_reply_rcv>> = rx_prev

\* a burst of an errored packet and an error-free packet that is not IPv4
C32_Witness ==
    /\ Len(rx_events) = 2
    /\ rx_events[1].err
    /\ ~rx_events[2].err /\ ~rx_events[2].ipv4
    /\ rx_frees = <<1, 1>>
    /\ rx_classified = <<FALSE, TRUE>>

(***************************************************************************)
(* Claims about the reporter and the shape of the run.                     *)
(***************************************************************************)
\* pkt_count_max of the send workers of the run, and those workers
Quota == PktCountMax(mode, number, thread_cnt)

SendWorkers == {w \in StopTargets(num_workers) : WorkerRole(mode, w) = "tx"}

\* the run has send workers and main has set their configuration
HasQuota == mode # APPL_MODE_RCV /\ thread_cnt # 0 /\ Quota # 0

\* C35: a send worker with a nonzero quota pkt_count_max starts a burst only
\* while its sent counter is at most the quota, so the counter never goes
\* beyond quota + tx_burst_size; and the quotas of the send workers of the
\* run add up to at least the count N.
C35_QuotaBoundsSent ==
    /\ [](HasQuota =>
            /\ \A w \in SendWorkers : t_snd[w] <= Quota + tx_burst_size
            /\ Cardinality(SendWorkers) * Quota >= number)
    /\ [][HasQuota =>
            \A w \in Workers : t_snd'[w] # t_snd[w] => t_snd[w] <= Quota]_vars

\* a UDP run of two workers in which one worker's sent counter stands at
\* quota + tx_burst_size
C35_Witness ==
    /\ mode = APPL_MODE_UDP
    /\ num_workers = 2
    /\ HasQuota
    /\ \E w \in SendWorkers : t_snd[w] = Quota + tx_burst_size

StopRaised == \E w \in Workers : ~t_stop[w] /\ t_stop'[w]

RepliesCaughtUp == CounterSum(t_reply, 2) >= CounterSum(t_snd, 2)

\* C23: in ping mode, once the count is reached, a stop flag is set only
\* when the echo replies have caught up with the packets sent or the
\* timeout has run out.
C23_GraceBeforeStop ==
    [][(/\ mode = APPL_MODE_PING
        /\ CountReached(mode, number, CounterSum(t_snd, num_workers))
        /\ StopRaised)
       => (RepliesCaughtUp \/ timeout' < 0)]_vars

\* the sent counters add up to the count of a run that sends and has one
SentCountSeen ==
    /\ mode # APPL_MODE_RCV
    /\ number # -1
    /\ CounterSum(t_snd, num_workers) >= number

\* C36: print_global_stats sets a stop flag only when the run sends, has a
\* count and the summed sent counter has got to it, or when the number of
\* live worker threads is not num_workers; so in a receive-only run or a
\* run without a count no stop flag is set while all workers are alive.
C36_StopOnlyOnCountOrDeadWorker ==
    /\ [][StopRaised => (SentCountSeen \/ LiveWorkers # num_workers)]_vars
    /\ [][((mode = APPL_MODE_RCV \/ number = -1) /\ LiveWorkers = num_workers)
            => t_stop' = t_stop]_vars

\* the stop flags of a run of two workers, both alive, are set with the
\* count reached
C36_Witness ==
    /\ \A w \in StopTargets(num_workers) : t_stop[w]
    /\ SentCountSeen
    /\ num_workers = 2
    /\ LiveWorkers = 2

\* C24: in a run with a count, the workers together never send more
\* packets than the count.
C24_SentWithinCount ==
    (number # -1 /\ m_pc \notin {"setup", "exit_failure"})
        => CounterSum(t_snd, num_workers) <= number

\* C25: in ping mode main goes on with exactly two workers, thread_cnt 2
\* and a barrier of 3 whatever worker count was asked for.
C25_PingAlwaysTwoWorkers ==
    (mode = APPL_MODE_PING /\ m_pc # "setup")
        => /\ m_pc # "exit_failure"
           /\ num_workers = 2
           /\ thread_cnt = 2
           /\ barrier_size = 3

(***************************************************************************)
(* Claims about what the receiver counts and reports.                      *)
(***************************************************************************)
IsEchoRequest(pkt) ==
    /\ ~pkt.err
    /\ pkt.ipv4
    /\ pkt.proto = ODPH_IPPROTO_ICMPV4
    /\ pkt.icmp_type = ICMP_ECHO

\* C21: a burst made of ICMP echo requests leaves the three counters of
\* the receiving worker as they were before it.
C21_EchoRequestNoCounterEffect ==
    (rx_events # <<>> /\ \A k \in DOMAIN rx_events : IsEchoRequest(rx_events[k]))
        => <<ctr_pkt_rcv, ctr_udp_rcv, ctr_icmp_reply_rcv>> = rx_prev

\* the events of the last burst that print_pkts counts
CountedIpv4 == {k \in DOMAIN rx_events : ~rx_events[k].err /\ rx_events[k].ipv4}

\* C38: udp-received plus icmp-echo-reply-received never exceeds received;
\* an iteration raises received by one for every error-free IPv4 packet,
\* udp-received by no more than the IPv4 packets of protocol UDP and
\* icmp-echo-reply-received by no more than the IPv4 packets of protocol
\* ICMP whose type is echo reply.
C38_CountersBySort ==
    /\ ctr_udp_rcv + ctr_icmp_reply_rcv <= ctr_pkt_rcv
    /\ ctr_pkt_rcv - rx_prev[1] = Cardinality(CountedIpv4)
    /\ ctr_udp_rcv - rx_prev[2] <=
          Cardinality({k \in CountedIpv4 : rx_events[k].proto = ODPH_IPPROTO_UDP})
    /\ ctr_icmp_reply_rcv - rx_prev[3] <=
          Cardinality({k \in CountedIpv4 :
                         /\ rx_events[k].proto = ODPH_IPPROTO_ICMPV4
                         /\ rx_events[k].icmp_type = ICMP_ECHOREPLY})

\* a burst of an echo request and an echo reply: two packets received, one
\* echo reply counted
C38_Witness ==
    /\ Len(rx_events) = 2
    /\ IsEchoRequest(rx_events[1])
    /\ ~rx_events[2].err /\ rx_events[2].ipv4
    /\ rx_events[2].proto = ODPH_IPPROTO_ICMPV4
    /\ rx_events[2].icmp_type = ICMP_ECHOREPLY
    /\ ctr_pkt_rcv - rx_prev[1] = 2
    /\ ctr_icmp_reply_rcv - rx_prev[3] = 1

=============================================================================
